---- MODULE Spec2Model ----
(***************************************************************************)
(* Model of the modern-inspector debug bridge of React Native for Windows: *)
(* the packager connection (InspectorPackagerConnection::Impl and the      *)
(* ReactInspectorWebSocket transport adapter), the Host / Instance /       *)
(* Runtime target lifecycle driven by ReactInstanceWin, and the Hermes     *)
(* runtime agent delegate with its exported CDP state.                     *)
(***************************************************************************)
EXTENDS Integers, FiniteSets, Sequences, TLC

(***************************************************************************)
(* Bounds                                                                  *)
(***************************************************************************)
MaxSockets == 3

MaxScheduled == 2

Sockets == 1 .. MaxSockets

NoSocket == 0

SocketStates == {"unused", "connecting", "open", "failed", "closed"}

MaxSessions == 2

MaxEngines == 3

MaxCdpState == 1

Sessions == 1 .. MaxSessions

Engines == 1 .. MaxEngines

NoTarget == 0

NoEngine == 0

\* hermes CDP state: 0 is the empty (default-constructed) state
EmptyCdpState == 0

CdpStates == 0 .. MaxCdpState

\* a RuntimeAgentDelegate::ExportedState pointer: nullptr or a wrapper
NullWrapper == [kind |-> "null", state |-> EmptyCdpState]

Wrappers == [kind : {"null", "hermes", "foreign"}, state : CdpStates]

\* ids the Target Registry can hand out within the bound
MaxPages == 3

PageIds == 1 .. MaxPages

\* std::optional<int> m_inspectorPageId without a value
NoPage == 0

\* remote connections (frontends' IRemoteConnection objects) ever created
MaxRemotes == 3

Remotes == 1 .. MaxRemotes

\* no remote connection: an expired weak_ptr, an empty FrontendChannel
NoRemote == 0

\* SessionState as HostTargetSession creates it
NewSessionState ==
  [isRuntimeDomainEnabled |-> FALSE, isDebuggerDomainEnabled |-> FALSE]

SessionStates ==
  [isRuntimeDomainEnabled : BOOLEAN, isDebuggerDomainEnabled : BOOLEAN]

\* the domains enabled in a hermes CDP agent
NoDomains == [runtime |-> FALSE, debugger |-> FALSE]

DomainSets == [runtime : BOOLEAN, debugger : BOOLEAN]

\* requests the frontends present, in all, within the bound
MaxRequests == 2

\* CDP method names, character by character
LogPrefix == <<"L", "o", "g", ".">>

LogClear == <<"L", "o", "g", ".", "c", "l", "e", "a", "r">>

RuntimeEnable ==
  <<"R", "u", "n", "t", "i", "m", "e", ".", "e", "n", "a", "b", "l", "e">>

\* what a frontend may send: Log.clear, Runtime.enable, a method of a domain
\* nobody knows whose name begins like the Log domain's (Logger.flush), and a
\* message from which no method can be read (the empty name)
Methods ==
  {LogClear, RuntimeEnable,
   <<"L", "o", "g", "g", "e", "r", ".", "f", "l", "u", "s", "h">>, <<>>}

\* arguments of a console call, within the bound
MaxArgs == 3

\* InspectorPackagerConnection objects the process can create
MaxConnections == 2

\* imports tried from one exported state wrapper
MaxImports == 3

VARIABLES
  \* InspectorPackagerConnection::Impl
  webSocket,          \* webSocket_: NoSocket (nullptr) or the current transport
  connected,          \* connected_
  closed,             \* closed_
  reconnectPending,   \* reconnectPending_
  scheduled,          \* callbacks handed to scheduleCallback and not yet run
  \* transports created by connectWebSocket (ReactInspectorWebSocket)
  sockState,
  adapterFixed,       \* ReactInspectorWebSocket with the SetOnConnect fix, or without
  started,            \* EnsureHermesInspector has created the connection
  \* build and process
  assertsEnabled,     \* assert() is compiled in (debug build) or out (NDEBUG)
  fatal,              \* an assertion has stopped the process
  \* ReactNativeHost / ReactInstanceWin
  hostTarget,         \* m_inspectorTarget is alive and its page is registered
  pc,                 \* position of ReactInstanceWin in load / reload / teardown
  hermesRuntimeHolder, \* m_hermesRuntimeHolder: NoEngine or the engine it holds
  generation,         \* number of engines created so far
  scriptEngine,       \* the engine in which script has started executing
  regTask,            \* registration task posted to the inspector executor
  inspectorInitialized, \* flag the JS thread waits for
  \* targets
  instanceTarget,     \* HostTarget's current InstanceTarget (NoTarget or 1)
  runtimeTarget,      \* InstanceTarget's current RuntimeTarget (by engine)
  \* sessions and their agents
  sessions,           \* connected HostTargetSessions
  instanceAgent,      \* per session: the InstanceTarget its InstanceAgent wraps
  runtimeAgent,       \* per session: the RuntimeTarget its RuntimeAgent wraps
  agentState,         \* per session: CDP state inside the hermes CDP agent
  exported,           \* per session: state wrapper kept between agents
  imported,           \* per session: state handed to createCdpAgent
  exportedHist,       \* per session: state the previous agent exported
  connectedAt,        \* per session: generation at which it connected
  sessionState,       \* per session: SessionState (domain-enablement flags)
  enabledDomains,     \* per session: domains enabled in its hermes CDP agent
  nextRemote,         \* the next remote connection a frontend opens
  remote,             \* per session: remote_, the remote connection it owns
  agentChannel,       \* per session: remote its agent's frontendChannel sends to
  inflight,           \* channels of engine-side work that has not completed
  lastRemote,         \* remote the last inbound / outbound message was about
  \* IInspector (the global Target Registry)
  pages,              \* registered pages, in registration order (their ids)
  nextPageId,         \* the id the next addPage returns
  inspectorPageId,    \* ReactNativeHost::m_inspectorPageId
  returnedIds,        \* every id addPage has returned so far
  lastPageId,         \* the id the last addPage / removePage was about
  \* requests and responses of the sessions
  presented,          \* per session: ids of the requests presented to its Agents
  engineQueue,        \* per session: requests the engine has not answered yet
  emitted,            \* per session: responses sent on its outbound channel
  lastRequest,        \* the request presented last
  \* InspectorPackagerConnection::Impl as a multiplexer
  inspectorSessions,  \* pages that have a Session connected through the proxy
  unanswered,         \* per page: requests delivered to its Session, unanswered
  inbound,            \* the frame received from the proxy last
  delivered,          \* where the last inbound wrappedEvent was delivered
  lastFrame,          \* the frame sent to the proxy last
  \* HermesRuntimeTargetDelegate::addConsoleMessage
  console,            \* the last console call and what crossed the boundary
  \* DebuggerDomainAgent
  notified,           \* per session: the last step sent it the enable-time
                      \* notifications (scriptParsed for every loaded script)
  \* ReactInspectorThread
  onExecutor,         \* the last step ran on the inspector's serial executor
  \* the registry's lock
  mutex,              \* "free", or the registry operation that holds it
  seen,               \* ids the last list or connect found in the registry
  \* the process
  packagerConnections, \* InspectorPackagerConnection objects created so far
  \* ReactInspectorThread as a serial queue
  executorTask,       \* the task the inspector executor is running now
  reloadRequest,      \* the reload a frontend asked for through onReload
  \* sessions of the multiplexer and its transports
  sessionSocket,      \* per page: the transport its Session was opened through
  \* HermesStateWrapper
  givenWrapper,       \* per session: the ExportedState as it was handed over
  stateWrapper,       \* per session: that ExportedState object as it is now
  unwrapped,          \* per session: what each import from it has returned
  lastOp              \* the operation that produced the current state

connState == <<webSocket, connected, closed, reconnectPending, scheduled,
               sockState, adapterFixed, started>>

lifeState == <<assertsEnabled, fatal, hostTarget, pc, hermesRuntimeHolder,
               generation, scriptEngine, regTask, inspectorInitialized,
               instanceTarget, runtimeTarget, sessions, instanceAgent,
               runtimeAgent, agentState, exported, imported, exportedHist,
               connectedAt, sessionState, enabledDomains, nextRemote, remote,
               agentChannel, inflight, lastRemote>>

sessState == <<sessionState, enabledDomains, nextRemote, remote, agentChannel,
               inflight, lastRemote>>

regState == <<pages, nextPageId, inspectorPageId, returnedIds, lastPageId>>

reqState == <<presented, engineQueue, emitted, lastRequest>>

muxState == <<inspectorSessions, unanswered, inbound, delivered, lastFrame>>

\* the state of what the frontends and the proxy do beyond connecting
threadState == <<onExecutor, mutex, seen>>
procState == <<packagerConnections>>
execState == <<executorTask, reloadRequest>>
attachState == <<sessionSocket>>
unwrapState == <<givenWrapper, stateWrapper, unwrapped>>
extState == <<reqState, muxState, console, notified, threadState, procState,
              execState, attachState, unwrapState>>

vars == <<connState, lifeState, regState, extState, lastOp>>

(***************************************************************************)
(* InspectorPackagerConnection::Impl                                       *)
(***************************************************************************)
isConnected(ws, conn) == ws # NoSocket /\ conn

IsConnected == isConnected(webSocket, connected)

\* ids of transports that can no longer signal anything
FreeSockets == {s \in Sockets : sockState[s] \in {"unused", "closed"}}

CanConnect == FreeSockets # {}

NewSocket == CHOOSE s \in FreeSockets : \A t \in FreeSockets : s <= t

\* connect(): webSocket_ = delegate_->connectWebSocket(...); the adapter's
\* constructor calls Connect(), which completes asynchronously.
connect_ws == NewSocket

\* a connect() that marks the connection connected as soon as it is initiated
connect_connected_OnEnqueue(conn) == TRUE

\* connect() leaves connected_ as it is
connect_connected(conn) == conn

connect_states == [sockState EXCEPT ![NewSocket] = "connecting"]

\* a reconnect() without the reconnectPending_ test
reconnect_NoPendingTest(pending, ws, conn, sched) ==
  IF isConnected(ws, conn) THEN <<pending, sched>>
  ELSE <<TRUE, sched + 1>>

\* a reconnect() that never schedules
reconnect_NoSchedule(pending, ws, conn, sched) == <<pending, sched>>

\* reconnect(), as a function of the flags, returns the new
\* <<reconnectPending_, number of scheduled callbacks>>
reconnect(pending, ws, conn, sched) ==
  IF pending THEN <<pending, sched>>
  ELSE IF isConnected(ws, conn) THEN <<pending, sched>>
  ELSE <<TRUE, sched + 1>>

TypeOK ==
  /\ webSocket \in Sockets \cup {NoSocket}
  /\ connected \in BOOLEAN
  /\ closed \in BOOLEAN
  /\ reconnectPending \in BOOLEAN
  /\ scheduled \in 0 .. MaxScheduled
  /\ sockState \in [Sockets -> SocketStates]
  /\ adapterFixed \in BOOLEAN
  /\ started \in BOOLEAN
  /\ assertsEnabled \in BOOLEAN
  /\ fatal \in BOOLEAN
  /\ hostTarget \in BOOLEAN
  /\ pc \in {"unloaded", "created", "recreated", "waiting", "running",
            "reloadUnregistered", "reloadDestroyed", "tdUnregistered", "gone"}
  /\ hermesRuntimeHolder \in Engines \cup {NoEngine}
  /\ generation \in 0 .. MaxEngines
  /\ scriptEngine \in Engines \cup {NoEngine}
  /\ regTask \in {"none", "load", "reload"}
  /\ inspectorInitialized \in BOOLEAN
  /\ instanceTarget \in {NoTarget, 1}
  /\ runtimeTarget \in Engines \cup {NoTarget}
  /\ sessions \subseteq Sessions
  /\ instanceAgent \in [Sessions -> {NoTarget, 1}]
  /\ runtimeAgent \in [Sessions -> Engines \cup {NoTarget}]
  /\ agentState \in [Sessions -> CdpStates]
  /\ exported \in [Sessions -> Wrappers]
  /\ imported \in [Sessions -> CdpStates]
  /\ exportedHist \in [Sessions -> CdpStates]
  /\ connectedAt \in [Sessions -> 0 .. MaxEngines]
  /\ sessionState \in [Sessions -> SessionStates]
  /\ enabledDomains \in [Sessions -> DomainSets]
  /\ nextRemote \in 1 .. MaxRemotes + 1
  /\ remote \in [Sessions -> Remotes \cup {NoRemote}]
  /\ agentChannel \in [Sessions -> Remotes \cup {NoRemote}]
  /\ inflight \subseteq Remotes
  /\ lastRemote \in Remotes \cup {NoRemote}
  /\ pages \in Seq(PageIds)
  /\ nextPageId \in 1 .. MaxPages + 1
  /\ inspectorPageId \in PageIds \cup {NoPage}
  /\ returnedIds \subseteq PageIds
  /\ lastPageId \in PageIds \cup {NoPage}
  /\ presented \in [Sessions -> Seq(1 .. MaxRequests)]
  /\ engineQueue \in [Sessions -> Seq(1 .. MaxRequests)]
  /\ emitted \in [Sessions ->
       Seq([kind : {"ok", "error", "engine"}, id : 0 .. MaxRequests])]
  /\ lastRequest \in [method : Methods, hostHandles : BOOLEAN]
  /\ inspectorSessions \subseteq PageIds
  /\ unanswered \in [PageIds -> SUBSET (1 .. MaxRequests)]
  /\ inbound \in [event : {"none", "getPages", "connect", "disconnect",
                            "wrappedEvent"},
                   pageId : Seq(STRING), id : 0 .. MaxRequests]
  /\ delivered \in [page : PageIds \cup {NoPage}, id : 0 .. MaxRequests]
  /\ lastFrame \in [event : {"none", "getPages", "disconnect", "wrappedEvent"},
                     pageId : Seq(STRING), payload : Seq(Seq(STRING)),
                     id : 0 .. MaxRequests]
  /\ notified \in [Sessions -> BOOLEAN]
  /\ onExecutor \in BOOLEAN
  /\ mutex \in {"free", "addPage", "removePage"}
  /\ seen \in SUBSET PageIds
  /\ packagerConnections \in 0 .. MaxConnections
  /\ executorTask \in {"idle", "onReload"}
  /\ reloadRequest \in {"none", "queued", "loading", "done"}
  /\ sessionSocket \in [PageIds -> Sockets \cup {NoSocket}]
  /\ givenWrapper \in [Sessions -> Wrappers]
  /\ stateWrapper \in [Sessions -> Wrappers]
  /\ unwrapped \in [Sessions -> Seq(CdpStates)]
  /\ console \in [args : 0 .. MaxArgs, calls : {0, 1}, read : 0 .. MaxArgs,
                   property : BOOLEAN]

Init ==
  /\ webSocket = NoSocket
  /\ connected = FALSE
  /\ closed = FALSE
  /\ reconnectPending = FALSE
  /\ scheduled = 0
  /\ sockState = [s \in Sockets |-> "unused"]
  /\ adapterFixed \in BOOLEAN
  /\ started = FALSE
  /\ assertsEnabled \in BOOLEAN
  /\ fatal = FALSE
  /\ hostTarget = TRUE
  /\ pc = "unloaded"
  /\ hermesRuntimeHolder = NoEngine
  /\ generation = 0
  /\ scriptEngine = NoEngine
  /\ regTask = "none"
  /\ inspectorInitialized = FALSE
  /\ instanceTarget = NoTarget
  /\ runtimeTarget = NoTarget
  /\ sessions = {}
  /\ instanceAgent = [s \in Sessions |-> NoTarget]
  /\ runtimeAgent = [s \in Sessions |-> NoTarget]
  /\ agentState = [s \in Sessions |-> EmptyCdpState]
  /\ exported = [s \in Sessions |-> NullWrapper]
  /\ imported = [s \in Sessions |-> EmptyCdpState]
  /\ exportedHist = [s \in Sessions |-> EmptyCdpState]
  /\ connectedAt = [s \in Sessions |-> 0]
  /\ sessionState = [s \in Sessions |-> NewSessionState]
  /\ enabledDomains = [s \in Sessions |-> NoDomains]
  /\ nextRemote = 1
  /\ remote = [s \in Sessions |-> NoRemote]
  /\ agentChannel = [s \in Sessions |-> NoRemote]
  /\ inflight = {}
  /\ lastRemote = NoRemote
  /\ pages = <<1>>
  /\ nextPageId = 2
  /\ inspectorPageId = 1
  /\ returnedIds = {1}
  /\ lastPageId = 1
  /\ presented = [s \in Sessions |-> <<>>]
  /\ engineQueue = [s \in Sessions |-> <<>>]
  /\ emitted = [s \in Sessions |-> <<>>]
  /\ lastRequest = [method |-> <<>>, hostHandles |-> FALSE]
  /\ inspectorSessions = {}
  /\ unanswered = [p \in PageIds |-> {}]
  /\ inbound = [event |-> "none", pageId |-> <<>>, id |-> 0]
  /\ delivered = [page |-> NoPage, id |-> 0]
  /\ lastFrame = [event |-> "none", pageId |-> <<>>, payload |-> <<>>,
                  id |-> 0]
  /\ console = [args |-> 0, calls |-> 0, read |-> 0, property |-> FALSE]
  /\ notified = [s \in Sessions |-> FALSE]
  /\ onExecutor = TRUE
  /\ mutex = "free"
  /\ seen = {}
  /\ packagerConnections = 0
  /\ executorTask = "idle"
  /\ reloadRequest = "none"
  /\ sessionSocket = [p \in PageIds |-> NoSocket]
  /\ givenWrapper = [s \in Sessions |-> NullWrapper]
  /\ stateWrapper = [s \in Sessions |-> NullWrapper]
  /\ unwrapped = [s \in Sessions |-> <<>>]
  /\ lastOp = "init"

\* DevSupportManager::EnsureHermesInspector: create the connection, connect()
EnsureHermesInspector ==
  /\ ~started
  /\ CanConnect
  /\ started' = TRUE
  /\ webSocket' = connect_ws
  /\ sockState' = connect_states
  /\ connected' = connect_connected(connected)
  /\ lastOp' = "connect"
  /\ UNCHANGED <<closed, reconnectPending, scheduled, adapterFixed>>

call_once_Always(flag) == TRUE

\* std::call_once(once, ...): the body runs only while the flag is not set
call_once(flag) == ~flag

\* a host's instance asks for the inspector connection: the first call
\* creates the shared InspectorPackagerConnection and connects it, every
\* later call does nothing
DevSupportManager_EnsureHermesInspector ==
  IF call_once(started)
    THEN /\ packagerConnections < MaxConnections
         /\ packagerConnections' = packagerConnections + 1
         /\ CanConnect
         /\ started' = TRUE
         /\ webSocket' = connect_ws
         /\ sockState' = connect_states
         /\ connected' = connect_connected(connected)
         /\ lastOp' = "connect"
         /\ UNCHANGED <<closed, reconnectPending, scheduled, adapterFixed>>
    ELSE /\ lastOp' = "connectSkipped"
         /\ UNCHANGED <<connState, packagerConnections>>

\* IWebSocketDelegate::didOpen
didOpen_connected == TRUE

\* the transport finished PerformConnect() successfully; m_connectHandler
\* runs only if SetOnConnect registered one, and without it didOpen() is never
\* called, isConnected() returns false and reconnect() is triggered
TransportOpen(s) ==
  /\ sockState[s] = "connecting"
  /\ sockState' = [sockState EXCEPT ![s] = "open"]
  /\ IF adapterFixed
       THEN /\ connected' = didOpen_connected
            /\ lastOp' = "didOpen"
            /\ UNCHANGED <<reconnectPending, scheduled>>
       ELSE /\ connected' = connected
            /\ LET r == IF closed THEN <<reconnectPending, scheduled>>
                        ELSE reconnect(reconnectPending, webSocket, connected,
                                       scheduled)
               IN /\ r[2] <= MaxScheduled
                  /\ reconnectPending' = r[1]
                  /\ scheduled' = r[2]
            /\ lastOp' = "openUnsignalled"
  /\ UNCHANGED <<webSocket, closed, adapterFixed, started>>

\* IWebSocketDelegate::didClose
TransportClose(s) ==
  /\ sockState[s] \in {"connecting", "open", "failed"}
  /\ sockState' = [sockState EXCEPT ![s] = "closed"]
  /\ connected' = FALSE
  /\ webSocket' = NoSocket
  /\ LET r == IF closed THEN <<reconnectPending, scheduled>>
              ELSE reconnect(reconnectPending, NoSocket, FALSE, scheduled)
     IN /\ r[2] <= MaxScheduled
        /\ reconnectPending' = r[1]
        /\ scheduled' = r[2]
  /\ lastOp' = "didClose"
  /\ UNCHANGED <<closed, adapterFixed, started>>

\* SetOnError: the fixed adapter forwards connection errors only, the
\* unfixed one every error
errorForwarded(fixed, state) == state = "connecting" \/ ~fixed

\* the transport reports an error; IWebSocketDelegate::didFailWithError
TransportError(s) ==
  /\ sockState[s] \in {"connecting", "open"}
  /\ sockState' = [sockState EXCEPT ![s] = "failed"]
  /\ IF errorForwarded(adapterFixed, sockState[s])
       THEN /\ connected' = FALSE
            /\ webSocket' = NoSocket
            /\ LET r == IF closed THEN <<reconnectPending, scheduled>>
                        ELSE reconnect(reconnectPending, NoSocket, FALSE,
                                       scheduled)
               IN /\ r[2] <= MaxScheduled
                  /\ reconnectPending' = r[1]
                  /\ scheduled' = r[2]
            /\ lastOp' = "didFail"
       ELSE /\ lastOp' = "errorIgnored"
            /\ UNCHANGED <<connected, webSocket, reconnectPending, scheduled>>
  /\ UNCHANGED <<closed, adapterFixed, started>>

\* closeQuietly()
closeQuietly ==
  /\ started
  /\ ~closed
  /\ closed' = TRUE
  /\ connected' = FALSE
  /\ webSocket' = NoSocket
  /\ lastOp' = "closeQuietly"
  /\ UNCHANGED <<reconnectPending, scheduled, sockState, adapterFixed, started>>

\* a callback that does not test closed_
callbackRuns_IgnoreClosed(isClosed) == TRUE

\* the liveness test of the callback reconnect() hands to scheduleCallback
callbackRuns(isClosed) == ~isClosed

\* the callback scheduled by reconnect(), run after RECONNECT_DELAY
ReconnectCallback ==
  /\ scheduled > 0
  /\ lastOp' = "timer"
  /\ IF ~callbackRuns(closed)
       THEN /\ scheduled' = scheduled - 1
            /\ UNCHANGED <<webSocket, connected, closed, reconnectPending,
                           sockState, adapterFixed, started>>
       ELSE IF isConnected(webSocket, connected)
         THEN /\ reconnectPending' = FALSE
              /\ scheduled' = scheduled - 1
              /\ UNCHANGED <<webSocket, connected, closed, sockState,
                             adapterFixed, started>>
         ELSE /\ CanConnect
              /\ webSocket' = connect_ws
              /\ sockState' = connect_states
              /\ connected' = connect_connected(connected)
              /\ LET r == reconnect(FALSE, connect_ws,
                                    connect_connected(connected), scheduled - 1)
                 IN /\ r[2] <= MaxScheduled
                    /\ reconnectPending' = r[1]
                    /\ scheduled' = r[2]
              /\ UNCHANGED <<closed, adapterFixed, started>>

(***************************************************************************)
(* HermesRuntimeAgentDelegate and its exported state                       *)
(***************************************************************************)
\* HermesStateWrapper::unwrapDestructively: the state moved out of the wrapper
unwrapDestructively(wrapper) ==
  IF wrapper.kind = "null" THEN EmptyCdpState
  ELSE IF wrapper.kind = "hermes" THEN wrapper.state
  ELSE EmptyCdpState

\* an unwrapDestructively that copies the state and leaves the wrapper whole
unwrapLeaves_Copy(wrapper) == wrapper

\* what unwrapDestructively leaves behind: a moved-from unique state is empty
unwrapLeaves(wrapper) ==
  IF wrapper.kind = "hermes"
    THEN [kind |-> "hermes", state |-> EmptyCdpState]
    ELSE wrapper

\* HermesRuntimeAgentDelegate::getExportedState
getExportedState(cdpState) == [kind |-> "hermes", state |-> cdpState]

\* a constructor that drops the previously exported state
createCdpAgent_state_Fresh(previouslyExportedState) == EmptyCdpState

\* HermesRuntimeAgentDelegate constructor: the state createCdpAgent receives
createCdpAgent_state(previouslyExportedState) ==
  unwrapDestructively(previouslyExportedState)

\* a session is handed a previously exported state: nullptr, a
\* HermesStateWrapper, or an ExportedState of another delegate's type
ExportedState_given(s, wrapper) ==
  /\ givenWrapper' = [givenWrapper EXCEPT ![s] = wrapper]
  /\ stateWrapper' = [stateWrapper EXCEPT ![s] = wrapper]
  /\ unwrapped' = [unwrapped EXCEPT ![s] = <<>>]
  /\ lastOp' = "exportedStateGiven"

\* HermesStateWrapper::unwrapDestructively(wrapper) on the session's wrapper,
\* as the constructor of HermesRuntimeAgentDelegate calls it
HermesStateWrapper_import(s) ==
  /\ Len(unwrapped[s]) < MaxImports
  /\ unwrapped' = [unwrapped EXCEPT ![s] =
       Append(@, unwrapDestructively(stateWrapper[s]))]
  /\ stateWrapper' = [stateWrapper EXCEPT ![s] = unwrapLeaves(@)]
  /\ lastOp' = "unwrapDestructively"
  /\ UNCHANGED givenWrapper

\* exported states handed over and imported
NextUnwrap ==
  /\ UNCHANGED <<connState, lifeState, regState, reqState, muxState, console,
                 notified, threadState, procState, execState, attachState>>
  /\ \/ \E s \in Sessions, w \in Wrappers : ExportedState_given(s, w)
     \/ \E s \in Sessions : HermesStateWrapper_import(s)

(***************************************************************************)
(* Targets, sessions and agents                                            *)
(***************************************************************************)
\* HermesRuntimeAgentDelegate constructor: is enableRuntimeDomain called
enableRuntimeDomain_called(state) == TRUE

\* HermesRuntimeAgentDelegate constructor: is enableDebuggerDomain called
enableDebuggerDomain_called(state) == TRUE

\* the domains enabled in the CDP agent when the constructor returns
ctorDomains(state) ==
  [runtime |-> enableRuntimeDomain_called(state),
   debugger |-> enableDebuggerDomain_called(state)]

\* a constructor that records the domains it enabled in the SessionState
ctorSessionState_Written(state) ==
  [isRuntimeDomainEnabled |-> TRUE, isDebuggerDomainEnabled |-> TRUE]

\* HermesRuntimeAgentDelegate constructor: the SessionState it leaves behind
\* (it only reads the flags)
ctorSessionState(state) == state

\* a delegate built without the session's channel
createAgentDelegate_channel_None(frontendChannel) == NoRemote

\* HermesRuntimeTargetDelegate::createAgentDelegate: the FrontendChannel the
\* new delegate sends through is the one it is handed
createAgentDelegate_channel(frontendChannel) == frontendChannel

\* RuntimeTarget::agents_ of target t
agents_(t) ==
  IF t = NoTarget THEN {} ELSE {s \in sessions : runtimeAgent[s] = t}

\* the destructor without its assertion
RuntimeTargetDtorFatal_NoAssert(agents, asserts) == FALSE

\* RuntimeTarget::~RuntimeTarget: does assert(agents_.empty()) stop the process
RuntimeTargetDtorFatal(agents, asserts) == asserts /\ agents # {}

\* sessions that all hand over the state kept by the first of them
sessionExportedState_First(store, s) == store[1]

\* the exported state a session hands to createAgentDelegate: the one it kept
\* when its own previous agent was torn down
sessionExportedState(store, s) == store[s]

\* InstanceTarget::registerRuntime as seen by the sessions: every connected
\* session gets a RuntimeAgent for the new target, built by
\* HermesRuntimeTargetDelegate::createAgentDelegate from the session's
\* previously exported state
\* a registration that gives agents only to sessions that connected after an
\* engine existed
registerRuntime_agent_Existing == [s \in Sessions |->
  IF s \in sessions /\ connectedAt[s] > 0 THEN hermesRuntimeHolder
  ELSE NoTarget]

registerRuntime_agent == [s \in Sessions |->
  IF s \in sessions THEN hermesRuntimeHolder ELSE NoTarget]

registerRuntime_state == [s \in Sessions |->
  IF s \in sessions
    THEN createCdpAgent_state(sessionExportedState(exported, s))
    ELSE agentState[s]]

registerRuntime_exported == [s \in Sessions |->
  IF s \in sessions THEN unwrapLeaves(sessionExportedState(exported, s))
  ELSE exported[s]]

registerRuntime_domains == [s \in Sessions |->
  IF s \in sessions THEN ctorDomains(sessionState[s]) ELSE enabledDomains[s]]

registerRuntime_sessionState == [s \in Sessions |->
  IF s \in sessions THEN ctorSessionState(sessionState[s])
  ELSE sessionState[s]]

registerRuntime_channel == [s \in Sessions |->
  IF s \in sessions THEN createAgentDelegate_channel(remote[s])
  ELSE agentChannel[s]]

\* InstanceTarget::unregisterRuntime as seen by the sessions: every RuntimeAgent
\* of the target is destroyed and its state exported into the session
unregisterRuntime_exported == [s \in Sessions |->
  IF s \in agents_(runtimeTarget) THEN getExportedState(agentState[s])
  ELSE exported[s]]

unregisterRuntime_hist == [s \in Sessions |->
  IF s \in agents_(runtimeTarget) THEN agentState[s] ELSE exportedHist[s]]

unregisterRuntime_agent == [s \in Sessions |->
  IF s \in agents_(runtimeTarget) THEN NoTarget ELSE runtimeAgent[s]]

unregisterRuntime ==
  /\ runtimeTarget' = NoTarget
  /\ runtimeAgent' = unregisterRuntime_agent
  /\ exported' = unregisterRuntime_exported
  /\ exportedHist' = unregisterRuntime_hist
  /\ agentState' = [s \in Sessions |->
       IF s \in agents_(runtimeTarget) THEN EmptyCdpState ELSE agentState[s]]
  /\ enabledDomains' = [s \in Sessions |->
       IF s \in agents_(runtimeTarget) THEN NoDomains ELSE enabledDomains[s]]
  /\ agentChannel' = [s \in Sessions |->
       IF s \in agents_(runtimeTarget) THEN NoRemote ELSE agentChannel[s]]
  /\ UNCHANGED <<sessionState, nextRemote, remote, inflight, lastRemote>>
  /\ fatal' = RuntimeTargetDtorFatal(
       {s \in sessions : unregisterRuntime_agent[s] = runtimeTarget},
       assertsEnabled)

(***************************************************************************)
(* ReactInstanceWin: load, reload, teardown                                *)
(***************************************************************************)
(***************************************************************************)
(* IInspector: the global Target Registry                                  *)
(***************************************************************************)
\* the ids of the registered pages
registeredIds(registered) == {registered[i] : i \in DOMAIN registered}

\* IInspector::getPages
getPages == pages

\* an addPage that hands out the previous id again
addPage_id_Again(next) == IF next > 1 THEN next - 1 ELSE next

\* IInspector::addPage: the id it returns, assigned monotonically
addPage_id(next) == next

\* IInspector::addPage: the counter after the call
addPage_next(next) == next + 1

\* a removePage that leaves the entry in the list
removePage_pages_Keep(registered, id) == registered

\* IInspector::removePage: the list without the entry
removePage_pages(registered, id) ==
  SelectSeq(registered, LAMBDA p : p # id)

\* a reload that unregisters the host's page
ReloadInstance_pages_Unregister(registered, id) ==
  SelectSeq(registered, LAMBDA p : p # id)

\* ReactNativeHost::ReloadInstance does not touch the inspector page
ReloadInstance_pages(registered, id) == registered

\* another host registers its page: getInspectorInstance().addPage(...)
addPage ==
  /\ nextPageId <= MaxPages
  /\ addPage_id(nextPageId) \in PageIds
  /\ pages' = Append(pages, addPage_id(nextPageId))
  /\ nextPageId' = addPage_next(nextPageId)
  /\ returnedIds' = returnedIds \cup {addPage_id(nextPageId)}
  /\ lastPageId' = addPage_id(nextPageId)
  /\ lastOp' = "addPage"
  /\ UNCHANGED inspectorPageId

\* another host unregisters its page: getInspectorInstance().removePage(id)
removePage(id) ==
  /\ id \in registeredIds(pages)
  /\ id # inspectorPageId
  /\ pages' = removePage_pages(pages, id)
  /\ lastPageId' = id
  /\ lastOp' = "removePage"
  /\ UNCHANGED <<nextPageId, inspectorPageId, returnedIds>>

\* Initialize(): m_hermesRuntimeHolder = std::make_shared<HermesRuntimeHolder>
Initialize_CreateRuntime ==
  /\ ~fatal
  /\ pc = "unloaded"
  /\ hostTarget
  /\ generation < MaxEngines
  /\ hermesRuntimeHolder' = generation + 1
  /\ generation' = generation + 1
  /\ pc' = "created"
  /\ lastOp' = "createRuntime"
  /\ UNCHANGED <<assertsEnabled, fatal, hostTarget, scriptEngine, regTask,
                 inspectorInitialized, instanceTarget, runtimeTarget, sessions,
                 instanceAgent, runtimeAgent, agentState, exported, imported,
                 exportedHist, connectedAt>>

\* the engine-starting thread hands the registration to the inspector executor
PostRegistration ==
  /\ ~fatal
  /\ pc \in {"created", "recreated"}
  /\ regTask' = IF pc = "created" THEN "load" ELSE "reload"
  /\ inspectorInitialized' = FALSE
  /\ pc' = "waiting"
  /\ lastOp' = "postRegistration"
  /\ UNCHANGED <<assertsEnabled, fatal, hostTarget, hermesRuntimeHolder,
                 generation, scriptEngine, instanceTarget, runtimeTarget,
                 sessions, instanceAgent, runtimeAgent, agentState, exported,
                 imported, exportedHist, connectedAt>>

\* the task on the inspector executor: registerInstance (first load),
\* registerRuntime, then signal completion
ExecutorRegister ==
  /\ ~fatal
  /\ regTask # "none"
  /\ regTask' = "none"
  /\ instanceTarget' = 1
  /\ instanceAgent' = [s \in Sessions |-> IF s \in sessions THEN 1 ELSE NoTarget]
  /\ runtimeTarget' = hermesRuntimeHolder
  /\ runtimeAgent' = registerRuntime_agent
  /\ agentState' = registerRuntime_state
  /\ imported' = registerRuntime_state
  /\ exported' = registerRuntime_exported
  /\ enabledDomains' = registerRuntime_domains
  /\ sessionState' = registerRuntime_sessionState
  /\ agentChannel' = registerRuntime_channel
  /\ UNCHANGED <<nextRemote, remote, inflight, lastRemote>>
  /\ inspectorInitialized' = TRUE
  /\ lastOp' = "register"
  /\ UNCHANGED <<assertsEnabled, fatal, hostTarget, pc, hermesRuntimeHolder,
                 generation, scriptEngine, sessions, exportedHist, connectedAt>>

\* a fire-and-forget dispatch: the engine-starting thread does not wait
waitReleased_NoWait(initialized) == TRUE

\* inspectorInitializedCv.wait(lock, [&] { return inspectorInitialized; })
waitReleased(initialized) == initialized

\* after the wait: initializeRuntime(), script starts executing
InitializeRuntime ==
  /\ ~fatal
  /\ pc = "waiting"
  /\ waitReleased(inspectorInitialized)
  /\ scriptEngine' = hermesRuntimeHolder
  /\ pc' = "running"
  /\ lastOp' = "initializeRuntime"
  /\ UNCHANGED <<assertsEnabled, fatal, hostTarget, hermesRuntimeHolder,
                 generation, regTask, inspectorInitialized, instanceTarget,
                 runtimeTarget, sessions, instanceAgent, runtimeAgent,
                 agentState, exported, imported, exportedHist, connectedAt>>

\* Reload(): unregisterRuntime(*m_runtimeInspectorTarget)
Reload_Unregister ==
  /\ ~fatal
  /\ pc = "running"
  /\ generation < MaxEngines
  /\ unregisterRuntime
  /\ pc' = "reloadUnregistered"
  /\ pages' = ReloadInstance_pages(pages, inspectorPageId)
  /\ lastOp' = "reloadUnregister"
  /\ UNCHANGED <<assertsEnabled, hostTarget, hermesRuntimeHolder, generation,
                 scriptEngine, regTask, inspectorInitialized, instanceTarget,
                 sessions, instanceAgent, imported, connectedAt>>
  /\ UNCHANGED <<nextPageId, inspectorPageId, returnedIds, lastPageId>>

\* Reload(): m_hermesRuntimeHolder.reset()
Reload_DestroyRuntime ==
  /\ ~fatal
  /\ pc = "reloadUnregistered"
  /\ hermesRuntimeHolder' = NoEngine
  /\ scriptEngine' = NoEngine
  /\ pc' = "reloadDestroyed"
  /\ lastOp' = "reloadDestroy"
  /\ UNCHANGED <<assertsEnabled, fatal, hostTarget, generation, regTask,
                 inspectorInitialized, instanceTarget, runtimeTarget, sessions,
                 instanceAgent, runtimeAgent, agentState, exported, imported,
                 exportedHist, connectedAt>>

\* Reload(): m_hermesRuntimeHolder = std::make_shared<HermesRuntimeHolder>
Reload_CreateRuntime ==
  /\ ~fatal
  /\ pc = "reloadDestroyed"
  /\ generation < MaxEngines
  /\ hermesRuntimeHolder' = generation + 1
  /\ generation' = generation + 1
  /\ pc' = "recreated"
  /\ lastOp' = "reloadCreate"
  /\ UNCHANGED <<assertsEnabled, fatal, hostTarget, scriptEngine, regTask,
                 inspectorInitialized, instanceTarget, runtimeTarget, sessions,
                 instanceAgent, runtimeAgent, agentState, exported, imported,
                 exportedHist, connectedAt>>

\* ~ReactInstanceWin(): unregisterRuntime(*m_runtimeInspectorTarget)
Teardown_Unregister ==
  /\ ~fatal
  /\ pc = "running"
  /\ unregisterRuntime
  /\ pc' = "tdUnregistered"
  /\ lastOp' = "teardownUnregister"
  /\ UNCHANGED <<assertsEnabled, hostTarget, hermesRuntimeHolder, generation,
                 scriptEngine, regTask, inspectorInitialized, instanceTarget,
                 sessions, instanceAgent, imported, connectedAt>>

\* ~ReactInstanceWin(): m_hermesRuntimeHolder.reset(); the instance is gone
Teardown_Destroy ==
  /\ ~fatal
  /\ pc = "tdUnregistered"
  /\ hermesRuntimeHolder' = NoEngine
  /\ scriptEngine' = NoEngine
  /\ pc' = "gone"
  /\ lastOp' = "teardownDestroy"
  /\ UNCHANGED <<assertsEnabled, fatal, hostTarget, generation, regTask,
                 inspectorInitialized, instanceTarget, runtimeTarget, sessions,
                 instanceAgent, runtimeAgent, agentState, exported, imported,
                 exportedHist, connectedAt>>

(***************************************************************************)
(* ReactNativeHost: page, connect callback, destructor                     *)
(***************************************************************************)
\* a connect callback that does not test the weak reference
connectAccepted_Always(targetAlive) == TRUE

\* the addPage connect callback: weakInspectorTarget.lock() succeeds
connectAccepted(targetAlive) == targetAlive

\* IInspector::connect -> connect callback -> HostTarget::connect
Connect(s) ==
  /\ ~fatal
  /\ s \notin sessions
  /\ IF connectAccepted(hostTarget)
       THEN /\ nextRemote <= MaxRemotes
            /\ sessions' = sessions \cup {s}
            /\ remote' = [remote EXCEPT ![s] = nextRemote]
            /\ nextRemote' = nextRemote + 1
            /\ sessionState' = [sessionState EXCEPT ![s] =
                 IF runtimeTarget # NoTarget
                   THEN ctorSessionState(NewSessionState)
                   ELSE NewSessionState]
            /\ enabledDomains' = [enabledDomains EXCEPT ![s] =
                 IF runtimeTarget # NoTarget THEN ctorDomains(NewSessionState)
                 ELSE NoDomains]
            /\ agentChannel' = [agentChannel EXCEPT ![s] =
                 IF runtimeTarget # NoTarget
                   THEN createAgentDelegate_channel(nextRemote)
                   ELSE NoRemote]
            /\ instanceAgent' = [instanceAgent EXCEPT ![s] = instanceTarget]
            /\ runtimeAgent' = [runtimeAgent EXCEPT ![s] = runtimeTarget]
            /\ agentState' = [agentState EXCEPT ![s] =
                 createCdpAgent_state(NullWrapper)]
            /\ imported' = [imported EXCEPT ![s] =
                 createCdpAgent_state(NullWrapper)]
            /\ exported' = [exported EXCEPT ![s] = NullWrapper]
            /\ exportedHist' = [exportedHist EXCEPT ![s] = EmptyCdpState]
            /\ connectedAt' = [connectedAt EXCEPT ![s] = generation]
            /\ lastOp' = "sessionConnect"
       ELSE /\ lastOp' = "connectRejected"
            /\ UNCHANGED <<sessions, instanceAgent, runtimeAgent, agentState,
                           imported, exported, exportedHist, connectedAt,
                           remote, nextRemote, sessionState, enabledDomains,
                           agentChannel>>
  /\ UNCHANGED <<inflight, lastRemote>>
  /\ UNCHANGED <<assertsEnabled, fatal, hostTarget, pc, hermesRuntimeHolder,
                 generation, scriptEngine, regTask, inspectorInitialized,
                 instanceTarget, runtimeTarget>>

\* the state of a session that has been destroyed
dropSessions(gone, f, blank) == [s \in Sessions |->
  IF s \in gone THEN blank ELSE f[s]]

\* ILocalConnection::disconnect: the session and its agents are destroyed
Disconnect(s) ==
  /\ ~fatal
  /\ s \in sessions
  /\ sessions' = sessions \ {s}
  /\ instanceAgent' = dropSessions({s}, instanceAgent, NoTarget)
  /\ runtimeAgent' = dropSessions({s}, runtimeAgent, NoTarget)
  /\ agentState' = dropSessions({s}, agentState, EmptyCdpState)
  /\ imported' = dropSessions({s}, imported, EmptyCdpState)
  /\ exported' = dropSessions({s}, exported, NullWrapper)
  /\ exportedHist' = dropSessions({s}, exportedHist, EmptyCdpState)
  /\ connectedAt' = dropSessions({s}, connectedAt, 0)
  /\ sessionState' = dropSessions({s}, sessionState, NewSessionState)
  /\ enabledDomains' = dropSessions({s}, enabledDomains, NoDomains)
  /\ remote' = dropSessions({s}, remote, NoRemote)
  /\ agentChannel' = dropSessions({s}, agentChannel, NoRemote)
  /\ UNCHANGED <<nextRemote, inflight, lastRemote>>
  /\ lastOp' = "sessionDisconnect"
  /\ UNCHANGED <<assertsEnabled, fatal, hostTarget, pc, hermesRuntimeHolder,
                 generation, scriptEngine, regTask, inspectorInitialized,
                 instanceTarget, runtimeTarget>>

\* a debugging command (set a breakpoint, ...) changes the engine's CDP state
HandleCommand(s) ==
  /\ ~fatal
  /\ s \in sessions
  /\ runtimeAgent[s] # NoTarget
  /\ \E st \in CdpStates :
       /\ st # agentState[s]
       /\ agentState' = [agentState EXCEPT ![s] = st]
  /\ lastOp' = "handleCommand"
  /\ UNCHANGED <<assertsEnabled, fatal, hostTarget, pc, hermesRuntimeHolder,
                 generation, scriptEngine, regTask, inspectorInitialized,
                 instanceTarget, runtimeTarget, sessions, instanceAgent,
                 runtimeAgent, exported, imported, exportedHist, connectedAt>>

\* the remote connections of the connected sessions
liveRemotes == {remote[s] : s \in sessions}

\* the frontend sends Runtime.enable / Runtime.disable: RuntimeAgent records
\* it in the SessionState and the engine's CDP agent enables the domain
SetRuntimeDomain(s, v) ==
  /\ ~fatal
  /\ s \in sessions
  /\ runtimeAgent[s] # NoTarget
  /\ sessionState[s].isRuntimeDomainEnabled # v
  /\ sessionState' = [sessionState EXCEPT ![s].isRuntimeDomainEnabled = v]
  /\ enabledDomains' = [enabledDomains EXCEPT ![s].runtime = v]
  /\ lastOp' = "setDomain"
  /\ UNCHANGED <<nextRemote, remote, agentChannel, inflight, lastRemote>>

\* the frontend sends Debugger.enable / Debugger.disable
SetDebuggerDomain(s, v) ==
  /\ ~fatal
  /\ s \in sessions
  /\ runtimeAgent[s] # NoTarget
  /\ sessionState[s].isDebuggerDomainEnabled # v
  /\ sessionState' = [sessionState EXCEPT ![s].isDebuggerDomainEnabled = v]
  /\ enabledDomains' = [enabledDomains EXCEPT ![s].debugger = v]
  /\ lastOp' = "setDomain"
  /\ UNCHANGED <<nextRemote, remote, agentChannel, inflight, lastRemote>>

\* is an inbound message of remote r routed to a session
inboundRouted(live, r) == r \in live

\* an inbound message arrives for the connection of remote r; if it is routed
\* and the session has a runtime agent, handleRequest hands it to the engine
RouteInbound(r) ==
  /\ ~fatal
  /\ r < nextRemote
  /\ lastRemote' = r
  /\ IF inboundRouted(liveRemotes, r)
       THEN /\ inflight' = inflight \cup
                 {agentChannel[s] : s \in {x \in sessions :
                     remote[x] = r /\ agentChannel[x] # NoRemote}}
            /\ lastOp' = "inboundRouted"
       ELSE /\ inflight' = inflight
            /\ lastOp' = "inboundDropped"
  /\ UNCHANGED <<sessionState, enabledDomains, nextRemote, remote,
                 agentChannel>>

\* a FrontendChannel that does not test its weak reference
remoteAlive_Always(live, r) == TRUE

\* the FrontendChannel's liveness check: remoteWeak.lock() succeeds
remoteAlive(live, r) == r \in live

\* engine-side work completes and calls the frontend message functor, which
\* calls the FrontendChannel it captured
EngineWorkDone(r) ==
  /\ ~fatal
  /\ r \in inflight
  /\ inflight' = inflight \ {r}
  /\ IF remoteAlive(liveRemotes, r)
       THEN /\ lastRemote' = r
            /\ lastOp' = "outbound"
       ELSE /\ lastRemote' = lastRemote
            /\ lastOp' = "outboundDropped"
  /\ UNCHANGED <<sessionState, enabledDomains, nextRemote, remote,
                 agentChannel>>

\* what the actions on session state leave alone
sessionFrame ==
  UNCHANGED <<assertsEnabled, fatal, hostTarget, pc, hermesRuntimeHolder,
              generation, scriptEngine, regTask, inspectorInitialized,
              instanceTarget, runtimeTarget, sessions, instanceAgent,
              runtimeAgent, agentState, exported, imported, exportedHist,
              connectedAt>>

\* ~ReactNativeHost(): removePage (its sessions are disconnected), then
\* m_inspectorTarget.reset() destroys the HostTarget and what it still owns
hostTargetDtor_instance_Kept(target) == target

\* m_inspectorTarget.reset(): the HostTarget goes and the InstanceTarget it
\* owns goes with it
hostTargetDtor_instance(target) == NoTarget

HostTeardown ==
  /\ ~fatal
  /\ hostTarget
  /\ pc \in {"unloaded", "gone"}
  /\ hostTarget' = FALSE
  /\ instanceTarget' = hostTargetDtor_instance(instanceTarget)
  /\ runtimeTarget' = NoTarget
  /\ sessions' = {}
  /\ instanceAgent' = dropSessions(Sessions, instanceAgent, NoTarget)
  /\ runtimeAgent' = dropSessions(Sessions, runtimeAgent, NoTarget)
  /\ agentState' = dropSessions(Sessions, agentState, EmptyCdpState)
  /\ imported' = dropSessions(Sessions, imported, EmptyCdpState)
  /\ exported' = dropSessions(Sessions, exported, NullWrapper)
  /\ exportedHist' = dropSessions(Sessions, exportedHist, EmptyCdpState)
  /\ connectedAt' = dropSessions(Sessions, connectedAt, 0)
  /\ sessionState' = dropSessions(Sessions, sessionState, NewSessionState)
  /\ enabledDomains' = dropSessions(Sessions, enabledDomains, NoDomains)
  /\ remote' = dropSessions(Sessions, remote, NoRemote)
  /\ agentChannel' = dropSessions(Sessions, agentChannel, NoRemote)
  /\ UNCHANGED <<nextRemote, inflight, lastRemote>>
  /\ pages' = removePage_pages(pages, inspectorPageId)
  /\ lastPageId' = inspectorPageId
  /\ inspectorPageId' = NoPage
  /\ lastOp' = "hostTeardown"
  /\ UNCHANGED <<assertsEnabled, fatal, pc, hermesRuntimeHolder, generation,
                 scriptEngine, regTask, inspectorInitialized, nextPageId,
                 returnedIds>>

\* a misordered teardown: the RuntimeTarget is destroyed without
\* unregisterRuntime, while the sessions still own their RuntimeAgents
DestroyRuntimeTarget ==
  /\ ~fatal
  /\ runtimeTarget # NoTarget
  /\ fatal' = RuntimeTargetDtorFatal(agents_(runtimeTarget), assertsEnabled)
  /\ runtimeTarget' = NoTarget
  /\ lastOp' = "destroyRuntimeTarget"
  /\ UNCHANGED <<assertsEnabled, hostTarget, pc, hermesRuntimeHolder,
                 generation, scriptEngine, regTask, inspectorInitialized,
                 instanceTarget, sessions, instanceAgent, runtimeAgent,
                 agentState, exported, imported, exportedHist, connectedAt>>

(***************************************************************************)
(* HostTargetSession: requests into the Agent tree, responses out of it    *)
(***************************************************************************)
\* std::string::starts_with
starts_with(str, prefix) ==
  /\ Len(str) >= Len(prefix)
  /\ SubSeq(str, 1, Len(prefix)) = prefix

\* a delegate that declines whatever starts with "Log", dot or no dot
handleRequest_AnyLog(method) == ~starts_with(method, SubSeq(LogPrefix, 1, 3))

\* HermesRuntimeAgentDelegate::handleRequest: what it returns; when it
\* returns true it has handed the request to HermesDebuggerApi::handleCommand
handleRequest(method) == ~starts_with(method, LogPrefix)

\* HostAgent, then InstanceAgent -> RuntimeAgent -> delegate: does some Agent
\* handle the request (a message without a method is no request at all)
agentTreeHandles(hostHandles, hasAgent, method) ==
  /\ method # <<>>
  /\ \/ hostHandles
     \/ hasAgent /\ handleRequest(method)

\* a Session that answers an unhandled request without its id
unhandledResponse_NoId(id) == [kind |-> "error", id |-> 0]

\* the Session's answer to a request that no Agent handled
unhandledResponse(id) == [kind |-> "error", id |-> id]

\* a frontend's message reaches the session's Agent tree; the HostAgent may
\* finish a method of the Log domain by itself (hostHandles)
PresentRequest(s, method, hostHandles) ==
  /\ ~fatal
  /\ s \in sessions
  /\ Cardinality({p \in Sessions \X (1 .. MaxRequests) :
                    p[2] <= Len(presented[p[1]])}) < MaxRequests
  /\ hostHandles => starts_with(method, LogPrefix)
  /\ lastRequest' = [method |-> method, hostHandles |-> hostHandles]
  /\ LET id == Len(presented[s]) + 1
     IN /\ presented' = [presented EXCEPT ![s] = Append(@, id)]
        /\ IF ~agentTreeHandles(hostHandles, runtimeAgent[s] # NoTarget,
                                method)
             THEN /\ emitted' = [emitted EXCEPT ![s] =
                       Append(@, unhandledResponse(id))]
                  /\ engineQueue' = engineQueue
                  /\ lastOp' = "requestNotHandled"
             ELSE IF hostHandles
               THEN /\ emitted' = [emitted EXCEPT ![s] =
                         Append(@, [kind |-> "ok", id |-> id])]
                    /\ engineQueue' = engineQueue
                    /\ lastOp' = "requestHandled"
               ELSE /\ engineQueue' = [engineQueue EXCEPT ![s] =
                         Append(@, id)]
                    /\ emitted' = emitted
                    /\ lastOp' = "requestToEngine"

\* a JS thread that runs the task posted last
runtimeExecutor_next_Newest(queue) == Len(queue)

\* runtimeExecutor: the position in its queue of the task the JS thread runs
\* next, the one posted first
runtimeExecutor_next(queue) == 1

\* the JS thread runs the next runtime task of a session's CDP agent; the
\* engine's answer goes out through the frontend message functor
EngineRespond(s) ==
  /\ ~fatal
  /\ s \in sessions
  /\ engineQueue[s] # <<>>
  /\ LET i == runtimeExecutor_next(engineQueue[s])
     IN /\ emitted' = [emitted EXCEPT ![s] =
             Append(@, [kind |-> "engine", id |-> engineQueue[s][i]])]
        /\ engineQueue' = [engineQueue EXCEPT ![s] =
             SubSeq(@, 1, i - 1) \o SubSeq(@, i + 1, Len(@))]
  /\ lastOp' = "engineResponse"
  /\ UNCHANGED <<presented, lastRequest>>

\* requests and responses go with their session, and the engine's pending
\* work for a session with the CDP agent that took it
requestsFollow ==
  /\ presented' = [s \in Sessions |->
       IF s \in sessions /\ s \in sessions' THEN presented[s] ELSE <<>>]
  /\ emitted' = [s \in Sessions |->
       IF s \in sessions /\ s \in sessions' THEN emitted[s] ELSE <<>>]
  /\ engineQueue' = [s \in Sessions |->
       IF s \in sessions /\ s \in sessions' /\ runtimeAgent'[s] = runtimeAgent[s]
         THEN engineQueue[s] ELSE <<>>]
  /\ lastRequest' = lastRequest

(***************************************************************************)
(* InspectorPackagerConnection::Impl: frames from and to the proxy         *)
(***************************************************************************)
RECURSIVE to_string(_)
\* std::to_string of a page id: its decimal digits
to_string(n) ==
  LET digit == <<"0", "1", "2", "3", "4", "5", "6", "7", "8", "9">>[(n % 10) + 1]
  IN IF n < 10 THEN <<digit>> ELSE Append(to_string(n \div 10), digit)

RECURSIVE stoi(_)
\* the page id read back from the "pageId" string of a frame
stoi(str) ==
  LET value(c) == CHOOSE d \in 0 .. 9 : to_string(d) = <<c>>
  IN IF Len(str) = 1 THEN value(str[1])
     ELSE 10 * stoi(SubSeq(str, 1, Len(str) - 1)) + value(str[Len(str)])

\* a pages() that gives every page the id of the first, as it gives every
\* page the same title
pages_payload_Same(registered) ==
  [i \in 1 .. Len(registered) |-> to_string(registered[1])]

\* Impl::pages(): the description of every registered page, with its id as
\* a string
pages_payload(registered) ==
  [i \in 1 .. Len(registered) |-> to_string(registered[i])]

\* {"event": "getPages"}: the current list of pages is sent to the proxy
handleProxyMessage_getPages ==
  /\ inbound' = [event |-> "getPages", pageId |-> <<>>, id |-> 0]
  /\ lastFrame' = [event |-> "getPages", pageId |-> <<>>,
                   payload |-> pages_payload(getPages), id |-> 0]
  /\ lastOp' = "getPages"
  /\ UNCHANGED <<inspectorSessions, unanswered, delivered>>

\* {"event": "connect", "payload": {"pageId": pageId}}: IInspector::connect
\* calls the page's connect callback with a remote that remembers the pageId
handleProxyMessage_connect(pageId) ==
  /\ stoi(pageId) \notin inspectorSessions
  /\ inbound' = [event |-> "connect", pageId |-> pageId, id |-> 0]
  /\ IF /\ stoi(pageId) \in registeredIds(pages)
        /\ stoi(pageId) = inspectorPageId => connectAccepted(hostTarget)
       THEN /\ inspectorSessions' = inspectorSessions \cup {stoi(pageId)}
            /\ lastOp' = "proxyConnect"
       ELSE /\ inspectorSessions' = inspectorSessions
            /\ lastOp' = "proxyConnectRejected"
  /\ UNCHANGED <<unanswered, delivered, lastFrame>>

\* a multiplexer that tears down every Session on a disconnect
disconnect_sessions_All(connectedPages, page) == {}

\* the Sessions left after {"event": "disconnect"} for a page
disconnect_sessions(connectedPages, page) == connectedPages \ {page}

\* {"event": "disconnect", "payload": {"pageId": pageId}}
handleProxyMessage_disconnect(pageId) ==
  /\ inbound' = [event |-> "disconnect", pageId |-> pageId, id |-> 0]
  /\ inspectorSessions' = disconnect_sessions(inspectorSessions, stoi(pageId))
  /\ unanswered' = [p \in PageIds |->
       IF p \in inspectorSessions' THEN unanswered[p] ELSE {}]
  /\ lastOp' = IF stoi(pageId) \in inspectorSessions
                 THEN "proxyDisconnect" ELSE "proxyDisconnectIgnored"
  /\ UNCHANGED <<delivered, lastFrame>>

\* a multiplexer that hands every message to the Session connected first
wrappedEvent_page_First(connectedPages, pageId) ==
  CHOOSE p \in connectedPages : \A q \in connectedPages : p <= q

\* the page whose Session an inbound wrappedEvent goes to
wrappedEvent_page(connectedPages, pageId) == stoi(pageId)

\* {"event": "wrappedEvent", "payload": {"pageId": pageId, "wrappedEvent":
\* message}}: the message, a request with the given id, goes to the page's
\* Session if it has one
handleProxyMessage_wrappedEvent(pageId, id) ==
  /\ inbound' = [event |-> "wrappedEvent", pageId |-> pageId, id |-> id]
  /\ IF stoi(pageId) \in inspectorSessions
       THEN LET page == wrappedEvent_page(inspectorSessions, pageId)
            IN /\ delivered' = [page |-> page, id |-> id]
               /\ unanswered' = [unanswered EXCEPT ![page] = @ \cup {id}]
               /\ lastOp' = "wrappedEventDelivered"
       ELSE /\ delivered' = [page |-> NoPage, id |-> 0]
            /\ unanswered' = unanswered
            /\ lastOp' = "wrappedEventDropped"
  /\ UNCHANGED <<inspectorSessions, lastFrame>>

\* RemoteConnection::onMessage: the Session of a page answers a request; the
\* answer goes to the proxy in a wrappedEvent with the remote's pageId
RemoteConnection_onMessage(page, id) ==
  /\ page \in inspectorSessions
  /\ id \in unanswered[page]
  /\ unanswered' = [unanswered EXCEPT ![page] = @ \ {id}]
  /\ lastFrame' = [event |-> "wrappedEvent", pageId |-> to_string(page),
                   payload |-> <<>>, id |-> id]
  /\ lastOp' = "wrappedEventSent"
  /\ UNCHANGED <<inspectorSessions, inbound, delivered>>

\* a multiplexer that tears the Session of a removed page down without a word
onPageRemoved_Silent(page) ==
  /\ inspectorSessions' = inspectorSessions \ {page}
  /\ unanswered' = [unanswered EXCEPT ![page] = {}]
  /\ UNCHANGED <<inbound, delivered, lastFrame>>

\* IPageStatusListener::onPageRemoved: the Session of a removed page is torn
\* down and the proxy is told
onPageRemoved(page) ==
  IF page \in inspectorSessions
    THEN /\ inspectorSessions' = inspectorSessions \ {page}
         /\ unanswered' = [unanswered EXCEPT ![page] = {}]
         /\ lastFrame' = [event |-> "disconnect", pageId |-> to_string(page),
                          payload |-> <<>>, id |-> 0]
         /\ UNCHANGED <<inbound, delivered>>
    ELSE UNCHANGED muxState

(***************************************************************************)
(* DebuggerDomainAgent: Debugger.enable and Debugger.disable               *)
(***************************************************************************)
\* an enable() without the enabled_ test
enable_notifies_Always(enabled) == TRUE

\* DebuggerDomainAgent::enable: it returns at once if enabled_ is set, else
\* it sets it and sends scriptParsed for every loaded script
enable_notifies(enabled) == ~enabled

\* the frontend sends Debugger.enable: the flag is recorded in the
\* SessionState and, if the session has a runtime Agent, the engine's agent
\* runs enable()
Debugger_enable(s) ==
  /\ ~fatal
  /\ s \in sessions
  /\ sessionState' = [sessionState EXCEPT ![s].isDebuggerDomainEnabled = TRUE]
  /\ IF runtimeAgent[s] # NoTarget
       THEN /\ enabledDomains' = [enabledDomains EXCEPT ![s].debugger = TRUE]
            /\ notified' = [x \in Sessions |->
                 x = s /\ enable_notifies(enabledDomains[s].debugger)]
       ELSE /\ enabledDomains' = enabledDomains
            /\ notified' = [x \in Sessions |-> FALSE]
  /\ lastRemote' = remote[s]
  /\ lastOp' = IF sessionState[s].isDebuggerDomainEnabled
                 THEN "debuggerEnableAgain" ELSE "debuggerEnable"
  /\ UNCHANGED <<nextRemote, remote, agentChannel, inflight>>

\* the frontend sends Debugger.disable
Debugger_disable(s) ==
  /\ ~fatal
  /\ s \in sessions
  /\ sessionState' = [sessionState EXCEPT ![s].isDebuggerDomainEnabled = FALSE]
  /\ enabledDomains' = [enabledDomains EXCEPT ![s].debugger =
       IF runtimeAgent[s] # NoTarget THEN FALSE ELSE @]
  /\ notified' = [x \in Sessions |-> FALSE]
  /\ lastRemote' = remote[s]
  /\ lastOp' = "debuggerDisable"
  /\ UNCHANGED <<nextRemote, remote, agentChannel, inflight>>

\* the delegate's constructor enables the Debugger domain of a new engine
\* agent: enable() runs with enabled_ not set
notifiedByConstructor ==
  notified' = [s \in Sessions |->
    /\ s \in sessions'
    /\ runtimeAgent'[s] # NoTarget
    /\ runtimeAgent'[s] # runtimeAgent[s]
    /\ enabledDomains'[s].debugger
    /\ enable_notifies(FALSE)]

(***************************************************************************)
(* HermesRuntimeTargetDelegate: console messages                           *)
(***************************************************************************)
\* the switch over message.type: the hermes console type, or the
\* std::logic_error thrown for a value outside ConsoleAPIType
hermes_console_api_type(type) ==
  IF type \in {"kLog", "kError", "kWarning"} THEN type ELSE "logic_error"

\* script running in the engine calls console.log(...) with nargs live
\* arguments and RuntimeTarget hands them to the delegate. The delegate
\* converts the type and takes the stack trace; the call across the boundary
\* is not made: console.calls counts the add-console-message boundary calls
\* of this console call, console.read is the size of the collection such a
\* call reads, console.property says whether the temporary global property
\* exists
addConsoleMessage(nargs, type) ==
  /\ ~fatal
  /\ scriptEngine # NoEngine
  /\ scriptEngine = hermesRuntimeHolder
  /\ console' = [args |-> nargs, calls |-> 0, read |-> 0,
                 property |-> console.property]
  /\ lastOp' = IF hermes_console_api_type(type) = "logic_error"
                 THEN "addConsoleMessageThrew" ELSE "addConsoleMessage"

(***************************************************************************)
(* ReactInspectorThread: where the operations run                          *)
(***************************************************************************)
\* can an operation run on the inspector's serial executor (TRUE), on
\* another thread (FALSE), or on either. The ReactNativeHost constructor and
\* destructor call addPage and removePage on the thread they are called on;
\* the steps of loading and destroying the engine run on the instance's own
\* threads; the transport's callbacks, the scheduled callbacks and the
\* registration are posted to ReactInspectorThread
ranOnExecutor(op) ==
  IF op \in {"hostTeardown", "addPage", "removePage"} THEN BOOLEAN
  ELSE IF op \in {"createRuntime", "postRegistration", "initializeRuntime",
                  "reloadDestroy", "reloadCreate", "teardownDestroy"}
    THEN {FALSE}
  ELSE {TRUE}

\* load, reload and teardown of the instance and its host
NextReload ==
  \/ /\ UNCHANGED regState
     /\ UNCHANGED sessState
     /\ \/ Initialize_CreateRuntime
        \/ PostRegistration
        \/ InitializeRuntime
        \/ Reload_DestroyRuntime
        \/ Reload_CreateRuntime
        \/ Teardown_Destroy
  \/ /\ UNCHANGED regState
     /\ \/ ExecutorRegister
        \/ Teardown_Unregister
  \/ Reload_Unregister
  \/ HostTeardown

\* what the frontends do to their sessions
NextSessions ==
  /\ UNCHANGED regState
  /\ \/ \E s \in Sessions : Connect(s)
     \/ \E s \in Sessions : Disconnect(s)
     \/ (UNCHANGED sessState /\ \E s \in Sessions : HandleCommand(s))

\* the frontends enable and disable domains
NextDomains ==
  /\ UNCHANGED connState
  /\ UNCHANGED extState
  /\ \/ NextReload
     \/ /\ UNCHANGED regState
        /\ \/ \E s \in Sessions : Connect(s)
           \/ \E s \in Sessions : Disconnect(s)
           \/ \E s \in Sessions, v \in BOOLEAN :
                (SetRuntimeDomain(s, v) /\ sessionFrame)
           \/ \E s \in Sessions, v \in BOOLEAN :
                (SetDebuggerDomain(s, v) /\ sessionFrame)

\* messages between the frontends and the engine
NextChannel ==
  /\ UNCHANGED connState
  /\ UNCHANGED extState
  /\ \/ NextReload
     \/ /\ UNCHANGED regState
        /\ \/ \E s \in Sessions : Connect(s)
           \/ \E s \in Sessions : Disconnect(s)
           \/ \E r \in Remotes : (RouteInbound(r) /\ sessionFrame)
           \/ \E r \in Remotes : (EngineWorkDone(r) /\ sessionFrame)

NextTargets ==
  /\ UNCHANGED connState
  /\ UNCHANGED extState
  /\ (NextReload \/ NextSessions)

\* the target lifecycle with the frontends' requests
NextRequests ==
  /\ UNCHANGED connState
  /\ UNCHANGED <<muxState, console, notified, threadState, procState,
                 execState, attachState,
                 unwrapState>>
  /\ \/ (NextReload /\ requestsFollow)
     \/ /\ UNCHANGED regState
        /\ \/ \E s \in Sessions : (Connect(s) /\ requestsFollow)
           \/ \E s \in Sessions : (Disconnect(s) /\ requestsFollow)
           \/ /\ UNCHANGED sessState
              /\ sessionFrame
              /\ \/ \E s \in Sessions, m \in Methods, h \in BOOLEAN :
                      PresentRequest(s, m, h)
                 \/ \E s \in Sessions : EngineRespond(s)

\* the proxy's frames, with pages coming and going; the transport is open
NextMux ==
  /\ UNCHANGED connState
  /\ UNCHANGED <<reqState, console, notified, threadState, procState,
                 execState, attachState,
                 unwrapState>>
  /\ \/ (addPage /\ UNCHANGED lifeState /\ UNCHANGED muxState)
     \/ \E id \in PageIds :
          (removePage(id) /\ onPageRemoved(id) /\ UNCHANGED lifeState)
     \/ (HostTeardown /\ onPageRemoved(inspectorPageId))
     \/ /\ UNCHANGED lifeState
        /\ UNCHANGED regState
        /\ \/ handleProxyMessage_getPages
           \/ \E page \in PageIds :
                handleProxyMessage_connect(to_string(page))
           \/ \E page \in PageIds :
                handleProxyMessage_disconnect(to_string(page))
           \/ \E page \in PageIds, id \in 1 .. MaxRequests :
                handleProxyMessage_wrappedEvent(to_string(page), id)
           \/ \E page \in PageIds, id \in 1 .. MaxRequests :
                RemoteConnection_onMessage(page, id)

\* the instance's lifecycle with its script calling the console
NextConsole ==
  /\ UNCHANGED connState
  /\ UNCHANGED <<reqState, muxState, notified, threadState, procState,
                 execState, attachState,
                 unwrapState>>
  /\ \/ (NextReload /\ UNCHANGED console)
     \/ /\ UNCHANGED lifeState
        /\ UNCHANGED regState
        /\ \E nargs \in 0 .. MaxArgs,
              type \in {"kLog", "kError", "kWarning", "unknown"} :
              addConsoleMessage(nargs, type)

\* the target lifecycle with frontends sending Debugger.enable / disable
NextEnable ==
  /\ UNCHANGED connState
  /\ UNCHANGED <<reqState, muxState, console, threadState, procState,
                 execState, attachState,
                 unwrapState>>
  /\ \/ (NextReload /\ notifiedByConstructor)
     \/ /\ UNCHANGED regState
        /\ \/ \E s \in Sessions : (Connect(s) /\ notifiedByConstructor)
           \/ \E s \in Sessions : (Disconnect(s) /\ notifiedByConstructor)
           \/ \E s \in Sessions : (Debugger_enable(s) /\ sessionFrame)
           \/ \E s \in Sessions : (Debugger_disable(s) /\ sessionFrame)

(***************************************************************************)
(* The registry called from several call sites at once                     *)
(***************************************************************************)
lock_acquired_Always(holder) == TRUE

\* a call takes the registry's lock only when no other call holds it
lock_acquired(holder) == holder = "free"

\* a call site enters addPage or removePage
Registry_lock(op) ==
  /\ lock_acquired(mutex)
  /\ mutex' = op
  /\ lastOp' = "registryLock"
  /\ UNCHANGED <<regState, seen>>

\* the call inside the registry changes it and leaves
Registry_write ==
  /\ \/ (mutex = "addPage" /\ addPage)
     \/ (mutex = "removePage" /\ \E id \in PageIds : removePage(id))
     \/ (mutex # "free" /\ lastOp' = "registryUnchanged" /\ UNCHANGED regState)
  /\ mutex' = "free"
  /\ UNCHANGED seen

\* another call site lists the pages, or looks a page up to connect to it:
\* it finds the registry's pages, or anything at all when it reads while a
\* writer is inside the registry (a data race)
Registry_read(op) ==
  /\ lock_acquired(mutex)
  /\ seen' \in IF mutex = "free" THEN {registeredIds(pages)}
               ELSE SUBSET PageIds
  /\ lastOp' = op
  /\ UNCHANGED <<regState, mutex>>

NextLocked ==
  /\ UNCHANGED <<connState, lifeState, reqState, muxState, console, notified,
                 onExecutor, procState, execState, attachState,
                 unwrapState>>
  /\ \/ \E op \in {"addPage", "removePage"} : Registry_lock(op)
     \/ Registry_write
     \/ \E op \in {"registryList", "registryConnect"} : Registry_read(op)

\* the packager connection, the registry and the instance's lifecycle, with
\* the thread each operation runs on
NextThreads ==
  /\ UNCHANGED <<reqState, muxState, console, notified, mutex, seen,
                 procState, execState, attachState,
                 unwrapState>>
  /\ \/ /\ UNCHANGED <<lifeState, regState>>
        /\ \/ EnsureHermesInspector
           \/ \E s \in Sockets : TransportOpen(s)
           \/ \E s \in Sockets : TransportClose(s)
           \/ \E s \in Sockets : TransportError(s)
           \/ closeQuietly
           \/ ReconnectCallback
     \/ /\ UNCHANGED connState
        /\ \/ (addPage /\ UNCHANGED lifeState)
           \/ (\E id \in PageIds : removePage(id) /\ UNCHANGED lifeState)
           \/ NextReload
  /\ onExecutor' \in ranOnExecutor(lastOp')

(***************************************************************************)
(* The registration round trip and the inspector executor's queue          *)
(***************************************************************************)
\* a ReloadInstance() that returns only when the instance is loaded again
ReloadInstance_returns_WhenLoaded(request) == request \in {"none", "done"}

\* ReloadInstance() returns its IAsyncAction at once: ReactHost posts the
\* load action to its own serial queue
ReloadInstance_returns(request) == TRUE

\* the executor takes HostTargetDelegate::onReload from its queue; the
\* delegate calls ReactNativeHost::ReloadInstance()
onReload ==
  /\ ~fatal
  /\ executorTask = "idle"
  /\ pc = "running"
  /\ reloadRequest \in {"none", "done"}
  /\ generation < MaxEngines
  /\ executorTask' = "onReload"
  /\ reloadRequest' = "queued"
  /\ lastOp' = "onReload"
  /\ UNCHANGED <<lifeState, regState>>

\* onReload returns and the executor is free for its next task
onReload_return ==
  /\ executorTask = "onReload"
  /\ ReloadInstance_returns(reloadRequest)
  /\ executorTask' = "idle"
  /\ lastOp' = "onReloadReturn"
  /\ UNCHANGED <<lifeState, regState, reloadRequest>>

\* the executor is a serial queue: it runs the registration task only when
\* it is running nothing else; the reload a frontend asked for is under way
\* from its unregistration and done when the engine-starting thread goes on
executorSerial ==
  /\ lastOp' = "register" => executorTask = "idle"
  /\ executorTask' = executorTask
  /\ reloadRequest' =
       IF lastOp' = "reloadUnregister" /\ reloadRequest = "queued"
         THEN "loading"
       ELSE IF lastOp' = "initializeRuntime" /\ reloadRequest = "loading"
         THEN "done"
       ELSE reloadRequest

\* load and reload, asked for by the application or by a frontend
NextRoundTrip ==
  /\ UNCHANGED <<connState, reqState, muxState, console, notified,
                 threadState, procState, attachState, unwrapState>>
  /\ \/ (NextReload /\ executorSerial)
     \/ /\ UNCHANGED <<regState, execState>>
        /\ \/ \E s \in Sessions : Connect(s)
           \/ \E s \in Sessions : Disconnect(s)
     \/ onReload
     \/ onReload_return

(***************************************************************************)
(* The multiplexer's Sessions and the transport they were opened through   *)
(***************************************************************************)
\* the Sessions left when the multiplexer loses its transport: none
closeAllConnections(connectedPages) == {}

\* a Session is opened through the transport its connect arrived on, and
\* sends through webSocket_, whichever transport that is when it sends
sessionSocket_next ==
  sessionSocket' = [p \in PageIds |->
    IF p \notin inspectorSessions' THEN NoSocket
    ELSE IF p \in inspectorSessions THEN sessionSocket[p]
    ELSE webSocket]

\* didClose, didFailWithError and closeQuietly take the Sessions down with
\* the transport; no other step of the connection touches them
transportSessions ==
  /\ inspectorSessions' =
       IF lastOp' \in {"didClose", "didFail", "closeQuietly"}
         THEN closeAllConnections(inspectorSessions)
         ELSE inspectorSessions
  /\ unanswered' = [p \in PageIds |->
       IF p \in inspectorSessions' THEN unanswered[p] ELSE {}]
  /\ UNCHANGED <<inbound, delivered, lastFrame>>
  /\ sessionSocket_next

\* the packager connection with the proxy connecting and disconnecting
\* pages over the transport that is open
NextAttached ==
  /\ UNCHANGED <<lifeState, regState, reqState, console, notified,
                 threadState, procState, execState, unwrapState>>
  /\ \/ /\ \/ EnsureHermesInspector
           \/ \E s \in Sockets : TransportOpen(s)
           \/ \E s \in Sockets : TransportClose(s)
           \/ \E s \in Sockets : TransportError(s)
           \/ closeQuietly
           \/ ReconnectCallback
        /\ transportSessions
     \/ /\ webSocket # NoSocket
        /\ sockState[webSocket] = "open"
        /\ UNCHANGED connState
        /\ \/ \E page \in PageIds :
                handleProxyMessage_connect(to_string(page))
           \/ \E page \in PageIds :
                handleProxyMessage_disconnect(to_string(page))
        /\ sessionSocket_next

\* the packager connection with every host's instance asking for it
NextOnce ==
  /\ UNCHANGED <<lifeState, regState, reqState, muxState, console, notified,
                 threadState, execState, attachState,
                 unwrapState>>
  /\ \/ DevSupportManager_EnsureHermesInspector
     \/ /\ UNCHANGED procState
        /\ \/ \E s \in Sockets : TransportOpen(s)
           \/ \E s \in Sockets : TransportClose(s)
           \/ \E s \in Sockets : TransportError(s)
           \/ closeQuietly
           \/ ReconnectCallback

NextMisordered ==
  \/ NextTargets
  \/ /\ DestroyRuntimeTarget
     /\ UNCHANGED connState
     /\ UNCHANGED extState
     /\ UNCHANGED regState
     /\ UNCHANGED sessState

NextConn ==
  /\ UNCHANGED lifeState
  /\ UNCHANGED extState
  /\ UNCHANGED regState
  /\ \/ EnsureHermesInspector
     \/ \E s \in Sockets : TransportOpen(s)
     \/ \E s \in Sockets : TransportClose(s)
     \/ \E s \in Sockets : TransportError(s)
     \/ closeQuietly
     \/ ReconnectCallback

\* the Target Registry with other hosts' pages coming and going, and the
\* host's instance loading, reloading and going away with no session connected
NextRegistry ==
  /\ UNCHANGED connState
  /\ UNCHANGED extState
  /\ \/ (addPage /\ UNCHANGED lifeState)
     \/ (\E id \in PageIds : removePage(id) /\ UNCHANGED lifeState)
     \/ NextReload

Next ==
  \/ NextConn
  \/ NextTargets
  \/ NextRegistry
  \/ NextDomains
  \/ NextChannel
  \/ NextRequests
  \/ NextMux
  \/ NextConsole
  \/ NextEnable
  \/ NextThreads
  \/ NextLocked
  \/ NextOnce
  \/ NextRoundTrip
  \/ NextAttached
  \/ NextUnwrap

Spec == Init /\ [][Next]_vars

\* the packager connection alone
SpecConn == Init /\ [][NextConn]_vars

\* the packager connection over the adapter that never signals open
InitNoOpen == Init /\ ~adapterFixed

SpecNoOpen == InitNoOpen /\ [][NextConn]_vars

\* the Target Registry and the reload cycle
SpecRegistry == Init /\ [][NextRegistry]_vars

\* the target lifecycle with frontends enabling and disabling domains
SpecDomains == Init /\ [][NextDomains]_vars

\* the target lifecycle with messages in both directions
SpecChannel == Init /\ [][NextChannel]_vars

\* the target lifecycle with requests and responses
InitRequests == Init /\ adapterFixed /\ assertsEnabled

SpecRequests == InitRequests /\ [][NextRequests]_vars

\* the multiplexer between the proxy and the pages' Sessions
SpecMux == InitRequests /\ [][NextMux]_vars

\* the instance's lifecycle with console calls
SpecConsole == InitRequests /\ [][NextConsole]_vars

\* the target lifecycle with Debugger.enable and Debugger.disable
SpecEnable == InitRequests /\ [][NextEnable]_vars

\* the threads of the connection's, the registry's and the lifecycle's steps
SpecThreads == InitRequests /\ [][NextThreads]_vars

\* the registry under calls from several call sites
SpecLocked == InitRequests /\ [][NextLocked]_vars

\* the packager connection asked for by several hosts
SpecOnce == InitRequests /\ [][NextOnce]_vars

\* the round trip with an executor that runs every task it is given, and an
\* engine-starting thread that goes on when it is released
SpecRoundTrip ==
  /\ InitRequests
  /\ [][NextRoundTrip]_vars
  /\ WF_vars(NextRoundTrip /\ lastOp' = "register")
  /\ WF_vars(NextRoundTrip /\ lastOp' = "onReloadReturn")
  /\ WF_vars(NextRoundTrip /\ lastOp' = "initializeRuntime")

\* the multiplexer's sessions over its transports
SpecAttached == Init /\ [][NextAttached]_vars

\* imports from exported state wrappers of every kind
SpecUnwrap == InitRequests /\ [][NextUnwrap]_vars

\* the target lifecycle alone
SpecTargets == Init /\ [][NextTargets]_vars

\* the target lifecycle with a misordered teardown by the host layer
SpecMisordered == Init /\ [][NextMisordered]_vars

(***************************************************************************)
(* Properties                                                              *)
(***************************************************************************)
\* the RuntimeTarget has just been destroyed while sessions still own
\* RuntimeAgents that reference it
DestroyedWithAgents ==
  /\ lastOp = "destroyRuntimeTarget"
  /\ \E s \in sessions : runtimeAgent[s] # NoTarget

\* C1 (as stated): destroying a RuntimeTarget while an agent still references
\* it stops the process with the fatal invariant violation.
C1_FatalInEveryBuild == DestroyedWithAgents => fatal

\* C1 (amended): in a build with assertions compiled in, destroying a
\* RuntimeTarget while an agent still references it stops the process with the
\* fatal invariant violation.
C1_FatalWhenAssertsEnabled == (assertsEnabled /\ DestroyedWithAgents) => fatal

C1_Witness == assertsEnabled /\ DestroyedWithAgents /\ fatal

\* C2: whenever the engine is destroyed its RuntimeTarget has already been
\* unregistered, and whenever the owner of the instance is destroyed its
\* InstanceTarget has already been unregistered.
C2_OrderingContract ==
  /\ lastOp \in {"reloadDestroy", "teardownDestroy"} => runtimeTarget = NoTarget
  /\ lastOp = "teardownDestroy" => instanceTarget = NoTarget

ReloadOps == {"reloadUnregister", "reloadDestroy", "reloadCreate",
              "postRegistration", "register", "initializeRuntime"}

\* C4: a reload leaves the connected sessions connected; once the new runtime
\* is registered every session's RuntimeAgent wraps the new RuntimeTarget and
\* was created from the state its previous agent exported.
C4_SessionContinuity ==
  /\ [](\A s \in sessions :
          /\ runtimeTarget # NoTarget => runtimeAgent[s] = runtimeTarget
          /\ runtimeAgent[s] # NoTarget => imported[s] = exportedHist[s])
  /\ [][lastOp' \in ReloadOps => sessions' = sessions]_vars

C4_Witness ==
  /\ pc = "running"
  /\ \E s \in sessions :
       /\ connectedAt[s] < runtimeTarget
       /\ runtimeAgent[s] = runtimeTarget
       /\ imported[s] # EmptyCdpState

\* C5: every agent of every session wraps a target that still exists.
C5_AgentTargetExists ==
  \A s \in sessions :
    /\ hostTarget
    /\ instanceAgent[s] # NoTarget => instanceAgent[s] = instanceTarget
    /\ runtimeAgent[s] # NoTarget => runtimeAgent[s] = runtimeTarget

C5_Witness ==
  /\ pc = "reloadUnregistered"
  /\ \E s \in sessions :
       /\ instanceAgent[s] = instanceTarget
       /\ instanceTarget # NoTarget
       /\ runtimeAgent[s] = NoTarget
       /\ exported[s].kind = "hermes"

\* a transport is created by this step
TransportCreated ==
  \E s \in Sockets : sockState'[s] = "connecting" /\ sockState[s] # "connecting"

\* C6: is_connected() holds only with a transport present and the connected
\* flag set, the flag is set only by a didOpen signal, and initiating a
\* connect never sets it.
C6_ConnectedOnlyByOpen ==
  /\ [](IsConnected => (webSocket # NoSocket /\ connected))
  /\ [][(connected' /\ ~connected) => lastOp' = "didOpen"]_vars
  /\ [][TransportCreated => (connected' = connected)]_vars

C6_Witness == lastOp = "didOpen" /\ IsConnected

\* C7: with a transport that never signals open, is_connected() stays false
\* forever and the reconnect loop never stops by itself: a transport that
\* completes its connect without signalling leaves a reconnect scheduled, a
\* scheduled reconnect stays scheduled until closeQuietly(), and every
\* reconnect callback that runs before closeQuietly() creates a new transport
\* and schedules the next reconnect one delay later.
C7_NeverOpenReconnectLoop ==
  /\ [](~IsConnected)
  /\ [][(lastOp' = "openUnsignalled" /\ ~closed) =>
          (reconnectPending' /\ scheduled' > 0)]_vars
  /\ [][(reconnectPending /\ ~closed') =>
          (reconnectPending' /\ scheduled' > 0)]_vars
  /\ [][(lastOp' = "timer" /\ ~closed) =>
          (TransportCreated /\ reconnectPending' /\ scheduled' > 0)]_vars

C7_Witness ==
  /\ lastOp = "timer"
  /\ ~closed
  /\ reconnectPending
  /\ scheduled = 1
  /\ webSocket # NoSocket
  /\ \E s \in Sockets : sockState[s] = "open"

\* C8: while the current transport is open (it has signalled open and has not
\* closed), is_connected() is true and no further reconnect is scheduled.
C8_OpenStopsReconnect ==
  [][(/\ adapterFixed
      /\ webSocket # NoSocket
      /\ sockState[webSocket] = "open"
      /\ sockState'[webSocket] = "open"
      /\ ~closed')
     => (IsConnected /\ IsConnected' /\ scheduled' <= scheduled)]_vars

\* C9: at most one reconnect callback is scheduled at any time.
C9_AtMostOneReconnect == scheduled <= 1

C9_Witness ==
  /\ lastOp = "didClose"
  /\ reconnectPending
  /\ scheduled = 1
  /\ \E s \in Sockets : sockState[s] = "failed"

\* C10: once closeQuietly() has been called the connection stays closed and
\* no transport is created any more, not even by a reconnect callback that was
\* already scheduled.
C10_NoTransportAfterClose ==
  [][closed => (closed' /\ ~TransportCreated)]_vars

C10_Witness == closed /\ lastOp = "timer"

\* C11: every close or error signal that reaches the multiplexer while it has
\* not been closed deliberately leaves it disconnected with exactly one
\* reconnect callback scheduled.
C11_DisconnectSchedulesReconnect ==
  [][(lastOp' \in {"didClose", "didFail"} /\ ~closed) =>
       (~IsConnected' /\ reconnectPending' /\ scheduled' = 1)]_vars

C11_Witness ==
  /\ lastOp = "didFail"
  /\ ~closed
  /\ webSocket = NoSocket
  /\ reconnectPending
  /\ scheduled = 1
  /\ \A s \in Sockets : sockState[s] \in {"unused", "failed"}

\* C12: the ids of the registered pages are pairwise distinct; addPage adds
\* exactly the id it returns, which no registered page has; removePage removes
\* exactly the id it is given; and no other operation changes list().
C12_RegistryIdsUniqueAndListed ==
  /\ [](\A i, j \in DOMAIN getPages : i # j => getPages[i] # getPages[j])
  /\ [][lastOp' = "addPage" =>
          /\ lastPageId' \notin registeredIds(pages)
          /\ registeredIds(pages') = registeredIds(pages) \cup {lastPageId'}]_vars
  /\ [][lastOp' \in {"removePage", "hostTeardown"} =>
          /\ lastPageId' \in registeredIds(pages)
          /\ registeredIds(pages') = registeredIds(pages) \ {lastPageId'}]_vars
  /\ [][lastOp' \notin {"addPage", "removePage", "hostTeardown"} =>
          pages' = pages]_vars

C12_Witness ==
  /\ lastOp = "removePage"
  /\ lastPageId \notin registeredIds(pages)
  /\ inspectorPageId \in registeredIds(pages)
  /\ Len(pages) = 2

\* C13: addPage never returns an id it has returned before, whether or not
\* the page that had it is still registered.
C13_IdNeverReused ==
  [][lastOp' = "addPage" =>
       (lastPageId' \notin returnedIds /\ lastPageId' \in returnedIds')]_vars

C13_Witness ==
  /\ lastOp = "addPage"
  /\ lastPageId \in registeredIds(pages)
  /\ \E id \in returnedIds : id \notin registeredIds(pages)

\* C14: with no session connected, no step of a reload cycle changes the
\* number of registered pages or the id of the host's page, however many
\* reloads are performed.
C14_ReloadLeavesRegistry ==
  [][(lastOp' \in ReloadOps /\ sessions = {}) =>
       /\ Len(getPages') = Len(getPages)
       /\ inspectorPageId' = inspectorPageId
       /\ inspectorPageId' \in registeredIds(pages')]_vars

C14_Witness ==
  /\ pc = "running"
  /\ generation = 3
  /\ sessions = {}
  /\ inspectorPageId = 1
  /\ Len(pages) = 2

DelegateCreated(s) == runtimeAgent[s] = NoTarget /\ runtimeAgent'[s] # NoTarget

\* C16: the domain-enablement flags of a connected session change only when
\* the frontend enables or disables a domain: no step of a reload, which
\* destroys and re-creates the session's agents, changes them.
C16_FlagsBelongToSession ==
  /\ [][\A s \in sessions :
          (s \in sessions' /\ remote'[s] = remote[s] /\ lastOp' # "setDomain")
            => sessionState'[s] = sessionState[s]]_vars
  /\ [][\A s \in sessions :
          (lastOp' \in ReloadOps \cup {"teardownUnregister", "teardownDestroy"})
            => (s \in sessions' /\ sessionState'[s] = sessionState[s])]_vars

C16_Witness ==
  /\ lastOp = "register"
  /\ generation = 2
  /\ \E s \in sessions :
       /\ connectedAt[s] = 1
       /\ runtimeAgent[s] = runtimeTarget
       /\ sessionState[s].isRuntimeDomainEnabled
       /\ ~sessionState[s].isDebuggerDomainEnabled

\* C17: when a runtime agent delegate is created for a session, the Runtime
\* domain is enabled in its engine agent only if the session's Runtime flag
\* is set, and the Debugger domain only if the session's Debugger flag is set.
C17_DomainsFollowSessionFlags ==
  [][\A s \in Sessions :
       (s \in sessions' /\ DelegateCreated(s)) =>
         /\ enabledDomains'[s].runtime => sessionState'[s].isRuntimeDomainEnabled
         /\ enabledDomains'[s].debugger =>
              sessionState'[s].isDebuggerDomainEnabled]_vars

\* C18: when the next Runtime Target is registered, the agent of every session
\* that kept an exported state imports exactly that state, the kept wrapper is
\* consumed, and the agent of a session that kept none starts from the empty
\* state, whatever the other sessions kept.
C18_StateStaysWithSession ==
  [][lastOp' = "register" =>
       \A s \in sessions :
         /\ exported[s].kind = "hermes" =>
              /\ imported'[s] = exported[s].state
              /\ agentState'[s] = exported[s].state
         /\ exported[s].kind = "null" => imported'[s] = EmptyCdpState
         /\ exported'[s].state = EmptyCdpState]_vars

C18_Witness ==
  /\ lastOp = "register"
  /\ generation = 2
  /\ \E s, u \in sessions :
       /\ s # u
       /\ exportedHist[s] # EmptyCdpState
       /\ imported[s] = exportedHist[s]
       /\ imported[u] = EmptyCdpState

\* C19: the runtime agent of a session always sends through the remote
\* connection the session was created with, and no step of a reload changes
\* that remote connection: the recreated agent gets the same outbound channel.
C19_ChannelNeverSwapped ==
  /\ [](\A s \in sessions :
          runtimeAgent[s] # NoTarget => agentChannel[s] = remote[s])
  /\ [][lastOp' \in ReloadOps =>
          \A s \in sessions : s \in sessions' /\ remote'[s] = remote[s]]_vars

C19_Witness ==
  /\ lastOp = "outbound"
  /\ generation = 2
  /\ pc = "running"
  /\ \E s \in sessions :
       /\ connectedAt[s] = 1
       /\ remote[s] = lastRemote
       /\ agentChannel[s] = remote[s]

\* C20: an inbound message is routed only to a session that is still
\* connected, a message for a disconnected session starts no engine work, and
\* an outbound message is delivered only to the remote connection of a session
\* that is still connected, also when the work that produces it was started
\* before the session disconnected.
C20_NothingAfterDisconnect ==
  /\ [][lastOp' = "outbound" => lastRemote' \in liveRemotes]_vars
  /\ [][lastOp' = "inboundRouted" =>
          /\ lastRemote' \in liveRemotes
          /\ (inflight' \ inflight) \subseteq {agentChannel[s] : s \in sessions}]_vars
  /\ [][lastOp' = "inboundDropped" =>
          (lastRemote' \notin liveRemotes /\ inflight' = inflight)]_vars

C20_Witness ==
  /\ lastOp = "outboundDropped"
  /\ hostTarget
  /\ sessions = {}
  /\ nextRemote = 2
  /\ inflight = {}

\* a request has been presented to the Agent tree of session s in this step
RequestPresented(s) == Len(presented'[s]) = Len(presented[s]) + 1

\* C21: a request that no Agent handles (the message cannot be parsed, or
\* every Agent of the tree declines its method) is answered by its Session
\* with an error response that carries the request's id; nothing is handed to
\* the engine, the process does not stop and the session stays connected
C21_UnhandledGetsErrorResponse ==
  [][\A s \in Sessions :
       (/\ RequestPresented(s)
        /\ ~agentTreeHandles(lastRequest'.hostHandles,
                             runtimeAgent[s] # NoTarget, lastRequest'.method))
       => /\ emitted'[s] = Append(emitted[s],
               [kind |-> "error", id |-> presented'[s][Len(presented'[s])]])
          /\ engineQueue' = engineQueue
          /\ ~fatal'
          /\ s \in sessions'
          /\ remote'[s] = remote[s]]_vars

\* a session with a runtime Agent has been sent Log.clear, the HostAgent did
\* not finish it, the delegate declined it, and the Session answered with an
\* error response
C21_Witness ==
  \E s \in sessions :
    /\ lastOp = "requestNotHandled"
    /\ runtimeAgent[s] # NoTarget
    /\ lastRequest = [method |-> LogClear, hostHandles |-> FALSE]
    /\ emitted[s] # <<>>
    /\ emitted[s][Len(emitted[s])] =
         [kind |-> "error", id |-> presented[s][Len(presented[s])]]

C23_GetPagesListsRegistry ==
  [][lastOp' = "getPages"
     => /\ lastFrame'.event = "getPages"
        /\ Len(lastFrame'.payload) = Len(pages')
        /\ {stoi(lastFrame'.payload[i]) : i \in 1 .. Len(lastFrame'.payload)}
             = registeredIds(pages')]_vars

\* pages have been added and one removed, two are registered, and the
\* getPages payload lists the ids of those two
C23_Witness ==
  /\ lastOp = "getPages"
  /\ Len(pages) = 2
  /\ nextPageId > 3
  /\ lastFrame.payload = <<to_string(pages[1]), to_string(pages[2])>>
  /\ pages[1] # pages[2]

\* C24: a disconnect frame from the proxy tears down the Session of the page
\* it names, with the requests that Session had not answered, and leaves the
\* Sessions of all other pages and their requests as they were
C24_DisconnectTearsDownOnePage ==
  [][lastOp' \in {"proxyDisconnect", "proxyDisconnectIgnored"}
     => /\ inspectorSessions' = inspectorSessions \ {stoi(inbound'.pageId)}
        /\ unanswered'[stoi(inbound'.pageId)] = {}
        /\ \A p \in PageIds \ {stoi(inbound'.pageId)} :
             unanswered'[p] = unanswered[p]]_vars

\* the proxy has disconnected a page that had a Session, and the Session of
\* another page, with an unanswered request, is still there
C24_Witness ==
  /\ lastOp = "proxyDisconnect"
  /\ stoi(inbound.pageId) \notin inspectorSessions
  /\ \E p \in inspectorSessions : unanswered[p] # {}

\* C25: when a page that has a Session connected through the proxy is removed
\* from the registry, the multiplexer tears that Session down and sends the
\* proxy a disconnect frame with that page's id, in the same step
C25_RemovalSendsDisconnect ==
  [][\A p \in inspectorSessions :
       (p \in registeredIds(pages) /\ p \notin registeredIds(pages'))
       => /\ lastFrame' = [event |-> "disconnect", pageId |-> to_string(p),
                           payload |-> <<>>, id |-> 0]
          /\ p \notin inspectorSessions']_vars

\* ~ReactNativeHost() has removed the host's page while the proxy had a
\* Session on it and on another page; the disconnect frame names the host's
\* page and the other Session is still there
C25_Witness ==
  /\ lastOp = "hostTeardown"
  /\ lastFrame = [event |-> "disconnect", pageId |-> to_string(lastPageId),
                  payload |-> <<>>, id |-> 0]
  /\ inspectorSessions # {}
  /\ lastPageId \notin inspectorSessions

C28_ThreeArgumentsPassThrough ==
  [][(lastOp' = "addConsoleMessage" /\ console'.args = 3)
     => /\ console'.calls = 1
        /\ console'.read = 3
        /\ ~console'.property]_vars

\* C27: a Debugger.enable sent to a session whose Debugger domain is already
\* enabled changes neither the SessionState nor the domains enabled in the
\* engine's agent of any session, and sends no enable-time notifications;
\* a Debugger.disable sent to a session whose domain is disabled leaves the
\* SessionState as it was and sends none either
C27_EnableIsIdempotent ==
  [][\A s \in sessions :
       /\ (/\ lastOp' \in {"debuggerEnable", "debuggerEnableAgain"}
           /\ lastRemote' = remote[s]
           /\ sessionState[s].isDebuggerDomainEnabled)
          => /\ sessionState' = sessionState
             /\ enabledDomains' = enabledDomains
             /\ \A x \in Sessions : ~notified'[x]
       /\ (/\ lastOp' = "debuggerDisable"
           /\ lastRemote' = remote[s]
           /\ ~sessionState[s].isDebuggerDomainEnabled)
          => /\ sessionState' = sessionState
             /\ \A x \in Sessions : ~notified'[x]]_vars

\* a session with a runtime Agent whose Debugger domain was enabled has been
\* sent Debugger.enable again: the flag and the engine's domain are set and no
\* notifications went out
C27_Witness ==
  \E s \in sessions :
    /\ lastOp = "debuggerEnableAgain"
    /\ lastRemote = remote[s]
    /\ runtimeAgent[s] # NoTarget
    /\ sessionState[s].isDebuggerDomainEnabled
    /\ enabledDomains[s].debugger
    /\ ~notified[s]

\* C29 as stated: every step that changes the registry's pages or its id
\* space, the current Instance or Runtime Target, or the connection state of
\* the multiplexer runs on the inspector's serial executor
C29_MutatedOnExecutorOnly ==
  [][(\/ <<pages, nextPageId>>' # <<pages, nextPageId>>
      \/ <<instanceTarget, runtimeTarget>>' # <<instanceTarget, runtimeTarget>>
      \/ <<webSocket, connected, closed, reconnectPending>>'
           # <<webSocket, connected, closed, reconnectPending>>)
     => onExecutor']_vars

\* C30: every list or connect finds the registry as it is between two
\* register/unregister calls: no call is inside the registry when it reads,
\* and it finds exactly the pages registered then
C30_ReadersSeeWholeUpdates ==
  [][lastOp' \in {"registryList", "registryConnect"}
     => (mutex = "free" /\ seen' = registeredIds(pages))]_vars

\* a list after one page was registered and another unregistered
C30_Witness ==
  /\ lastOp = "registryList"
  /\ nextPageId = MaxPages + 1
  /\ seen = {1, 3}

\* C31: the process never has more than one InspectorPackagerConnection,
\* and has exactly one from the first time a host asks for it, however often
\* EnsureHermesInspector is called afterwards
C31_OneProxyConnection ==
  /\ packagerConnections <= 1
  /\ started <=> packagerConnections = 1

\* a later host asked again and no second connection was created
C31_Witness ==
  /\ lastOp = "connectSkipped"
  /\ packagerConnections = 1
  /\ webSocket # NoSocket

\* C32: a Runtime Target exists only while its Instance Target exists, and
\* an Instance Target only while its Host Target exists, in every state of
\* load, reload and teardown
C32_TargetsNested ==
  /\ runtimeTarget # NoTarget => instanceTarget # NoTarget
  /\ instanceTarget # NoTarget => hostTarget

\* the host went away after a reload, and its targets with it
C32_Witness ==
  /\ lastOp = "hostTeardown"
  /\ generation = MaxEngines
  /\ ~hostTarget
  /\ instanceTarget = NoTarget
  /\ runtimeTarget = NoTarget

\* C33: a request that reaches a session's HermesRuntimeAgentDelegate is
\* declined, with nothing queued for the engine, when its method begins with
\* the four characters "Log."; any other request is queued for the engine
\* exactly once and counts as handled
C33_LogDeclinedRestForwarded ==
  [][\A s \in Sessions :
       (/\ RequestPresented(s)
        /\ runtimeAgent[s] # NoTarget
        /\ lastRequest'.method # <<>>
        /\ ~lastRequest'.hostHandles)
       => LET m == lastRequest'.method
              isLog == Len(m) >= 4 /\ SubSeq(m, 1, 4) = <<"L", "o", "g", ".">>
          IN IF isLog
               THEN /\ engineQueue' = engineQueue
                    /\ lastOp' = "requestNotHandled"
               ELSE /\ engineQueue' = [engineQueue EXCEPT ![s] =
                         Append(@, presented'[s][Len(presented'[s])])]
                    /\ emitted' = emitted
                    /\ lastOp' = "requestToEngine"]_vars

\* Logger.flush, which begins with "Log" and not with "Log.", has been
\* handed to the engine
C33_Witness ==
  \E s \in sessions :
    /\ lastOp = "requestToEngine"
    /\ lastRequest.method = <<"L", "o", "g", "g", "e", "r", ".", "f", "l", "u", "s", "h">>
    /\ engineQueue[s] # <<>>
    /\ engineQueue[s][Len(engineQueue[s])] = presented[s][Len(presented[s])]

\* C34: when the targets are registered, a session that was connected and
\* had neither an Instance Agent nor a Runtime Agent gets both, for the
\* targets just registered, and stays the same session on the same remote
\* connection
C34_AgentsAppearOnRegistration ==
  [][\A s \in Sessions :
       (/\ lastOp' = "register"
        /\ s \in sessions
        /\ instanceAgent[s] = NoTarget
        /\ runtimeAgent[s] = NoTarget)
       => /\ s \in sessions'
          /\ remote'[s] = remote[s]
          /\ instanceTarget' # NoTarget
          /\ instanceAgent'[s] = instanceTarget'
          /\ runtimeTarget' # NoTarget
          /\ runtimeAgent'[s] = runtimeTarget']_vars

\* a session that connected before any engine was created has its agents
\* after the first registration
C34_Witness ==
  \E s \in sessions :
    /\ lastOp = "register"
    /\ connectedAt[s] = 0
    /\ generation = 1
    /\ instanceAgent[s] # NoTarget
    /\ runtimeAgent[s] = runtimeTarget
    /\ runtimeTarget # NoTarget

\* C35 as stated: a close or error signal of a transport that is not the
\* current one leaves the current transport and its connected flag as they
\* are
C35_StaleSignalIgnored ==
  [][\A s \in Sockets :
       (/\ sockState'[s] # sockState[s]
        /\ sockState'[s] \in {"closed", "failed"}
        /\ webSocket # NoSocket
        /\ s # webSocket)
       => /\ webSocket' = webSocket
          /\ connected' = connected]_vars

\* C36: whenever the engine-starting thread waits for the registration, it
\* is eventually released and the instance runs, also when the reload was
\* asked for by a task of the inspector executor itself
C36_RoundTripCompletes == (pc = "waiting") ~> (pc = "running")

\* a reload asked for through onReload on the executor has completed
C36_Witness ==
  /\ lastOp = "initializeRuntime"
  /\ reloadRequest = "done"
  /\ pc = "running"
  /\ generation = MaxEngines

\* C37 as stated: when the multiplexer is told that its transport closed or
\* failed, no Session is left; and every Session there is belongs to the
\* transport it was opened through, which is the multiplexer's current one
\* and has not closed
C37_SessionsEndWithTransport ==
  [][/\ lastOp' \in {"didClose", "didFail"} => inspectorSessions' = {}
     /\ \A p \in inspectorSessions' :
          /\ sessionSocket'[p] = webSocket'
          /\ sockState'[sessionSocket'[p]] # "closed"]_vars

C40_ImportedAtMostOnce ==
  [][\A s \in Sessions :
       (lastOp' = "unwrapDestructively" /\ unwrapped'[s] # unwrapped[s])
       => LET result == unwrapped'[s][Len(unwrapped'[s])]
          IN IF unwrapped[s] = <<>> /\ givenWrapper[s].kind = "hermes"
               THEN result = givenWrapper[s].state
               ELSE result = EmptyCdpState]_vars

\* a HermesStateWrapper that held engine state has been imported from twice
C40_Witness ==
  \E s \in Sessions :
    /\ lastOp = "unwrapDestructively"
    /\ givenWrapper[s].kind = "hermes"
    /\ givenWrapper[s].state # EmptyCdpState
    /\ Len(unwrapped[s]) = 2
    /\ unwrapped[s][1] = givenWrapper[s].state
    /\ unwrapped[s][2] = EmptyCdpState

====
